---- MODULE Spec2Model ----
(***************************************************************************)
(* A model of the lowlang IR builder (ir/src/builder.rs), its intrinsic    *)
(* registry (ir/src/intrinsics.rs), the runtime-metadata writer and the    *)
(* function lowering context of the cranelift backend                      *)
(* (backend-clif/src/middle.rs), the constant materializer                 *)
(* (codegen_cranelift/src/const_.rs), the syntax package and body builder  *)
(* (syntax/src/builder.rs) and the reference VM (vm/src/lib.rs).           *)
(*                                                                         *)
(* Conventions.  Arena indices (Var, Block, FuncId) are 1-based here where *)
(* the Rust arenas are 0-based, so Block::ENTRY is 1 and `insert(0, x)` is *)
(* a push at the head of a sequence; the ItemId, LocalId and BlockId of    *)
(* the syntax package and the VM are 0-based as in the source.  A panic is *)
(* a state with                                                            *)
(* panicked = TRUE in which no further operation runs; what had been       *)
(* written to the body before the panic stays written.                     *)
(***************************************************************************)
EXTENDS Integers, Sequences, FiniteSets, TLC

VARIABLES
    funcs,      \* Module::funcs, the declared functions
    vars,       \* Body::vars, the variable table (VarInfo { ty, flags })
    blocks,     \* Body::blocks (BlockData { params, instrs, term })
    block_id,   \* Builder::block_id, the current block
    panicked,   \* an operation panicked: the process is gone
    finished,   \* Builder::finish was called
    last,       \* the last operation: its name, inputs, result and pre-state
    nops,       \* the number of operations performed so far
    target,     \* backend: [ptr_size, endianness] of the object module
    datas,      \* backend: the data objects declared in the object module
    mcx,        \* backend: MiddleCtx (helper cells) and the module's functions
    fx,         \* backend: FnCtx, the function being lowered
    anon_count, \* backend: ClifBackend::anon_count
    host,       \* the byte order of the machine the compiler runs on
    pkg,        \* syntax: Package { externs, globals, bodies }
    bb,         \* syntax: BodyBuilder { body, current_block }
    vm          \* reference VM { memory, frames, fns } and its run_fn activations

vars_all == <<funcs, vars, blocks, block_id, panicked, finished, last, nops, target, datas, mcx, fx, anon_count, host, pkg, bb, vm>>

-----------------------------------------------------------------------------
(* Bounds *)

\* a run of the builder performs at most this many operations
MaxOps == 4
\* longest operand list handed to return_
MaxRetOps == 2
\* a signature has at most this many params and returns together
MaxSig == 3
\* apply is called on a body that holds fewer variables than this
MaxVars == 3
\* a body holds at most this many Intrinsic instructions
MaxIntrinsics == 1
\* the object module holds at most this many data objects
MaxDatas == 2
\* the lowering of one function makes at most this many FnBuilder calls
MaxFnOps == 3
\* the reference VM runs at most this many turns of its block loop
MaxSteps == 6

-----------------------------------------------------------------------------
(* Types (ir::ty) *)

I32 == [kind |-> "Int", int |-> "I32", sign |-> TRUE]
ISize == [kind |-> "Int", int |-> "ISize", sign |-> TRUE]
Bool8 == [kind |-> "Int", int |-> "I8", sign |-> FALSE]
TVar(i) == [kind |-> "Var", depth |-> 0, index |-> i]
Ptr(t) == [kind |-> "Ptr", to |-> t]
Boxed(t) == [kind |-> "Box", of |-> t]
Func(params, rets) == [kind |-> "Func", params |-> params, rets |-> rets]
Generic(params, ret) == [kind |-> "Generic", params |-> params, ret |-> ret]

EMPTY == {}
INDIRECT == "INDIRECT"
RETURN == "RETURN"
FlagIN == "IN"
FlagOUT == "OUT"

is_set(flags, f) == f \in flags

\* a parameter or return of a signature: SigParam { ty, flags }
SigParam(t, fl) == [ty |-> t, flags |-> fl]

ENTRY == 1

NoTerm == [term |-> "None"]

-----------------------------------------------------------------------------
(* The builder as functions on a builder state                              *)
(*   b = [vars, blocks, block_id, panic]                                    *)
(* An operation that returns a value yields [b |-> ..., ret |-> ...].       *)

Panic(b) == [b EXCEPT !.panic = TRUE]

InArena(i, arena) == i \in 1..Len(arena)

\* Body::var_type
var_type(b, v) == b.vars[v].ty

\* Builder::create_var
create_var(b, ty) ==
    IF b.panic THEN [b |-> b, ret |-> 0]
    ELSE [b |-> [b EXCEPT !.vars = Append(@, [ty |-> ty, flags |-> EMPTY])],
          ret |-> Len(b.vars) + 1]

\* Builder::create_block
create_block(b) ==
    IF b.panic THEN [b |-> b, ret |-> 0]
    ELSE [b |-> [b EXCEPT !.blocks =
                    Append(@, [params |-> <<>>, instrs |-> <<>>, term |-> NoTerm])],
          ret |-> Len(b.blocks) + 1]

\* Builder::set_block
set_block(b, blk) == IF b.panic THEN b ELSE [b EXCEPT !.block_id = blk]

\* self.block().instrs.push(instr): indexing the arena with a block that does
\* not exist panics
push_instr(b, instr) ==
    IF b.panic THEN b
    ELSE IF ~InArena(b.block_id, b.blocks) THEN Panic(b)
    ELSE [b EXCEPT !.blocks[b.block_id].instrs = Append(@, instr)]

\* self.block().term = Some(term)
set_term(b, term) ==
    IF b.panic THEN b
    ELSE IF ~InArena(b.block_id, b.blocks) THEN Panic(b)
    ELSE [b EXCEPT !.blocks[b.block_id].term = term]

\* add_param with the flag assignment `flags = Flags::INDIRECT` left out
add_param_no_flag(b, blk, ty) ==
    IF b.panic THEN [b |-> b, ret |-> 0]
    ELSE
      LET c == IF ty.kind = "Var" THEN create_var(b, Ptr(ty)) ELSE create_var(b, ty)
      IN  IF ~InArena(blk, c.b.blocks) THEN [b |-> Panic(c.b), ret |-> 0]
          ELSE [b |-> [c.b EXCEPT !.blocks[blk].params = Append(@, c.ret)],
                ret |-> c.ret]

\* Builder::add_param
add_param(b, blk, ty) ==
    IF b.panic THEN [b |-> b, ret |-> 0]
    ELSE
      LET c == IF ty.kind = "Var" THEN create_var(b, Ptr(ty)) ELSE create_var(b, ty)
          b1 == IF ty.kind = "Var"
                THEN [c.b EXCEPT !.vars[c.ret].flags = {INDIRECT}]
                ELSE c.b
      IN  IF ~InArena(blk, b1.blocks) THEN [b |-> Panic(b1), ret |-> 0]
          ELSE [b |-> [b1 EXCEPT !.blocks[blk].params = Append(@, c.ret)],
                ret |-> c.ret]

\* Builder::unreachable
unreachable(b) == set_term(b, [term |-> "Unreachable"])

\* Builder::br
br(b, blk, args) == set_term(b, [term |-> "Br", to |-> [block |-> blk, args |-> args]])

\* SwitchBuilder::build, after Builder::switch(op) and the case() calls
switch_build(b, op, cases, blk, args) ==
    set_term(b, [term |-> "Switch", pred |-> op, cases |-> cases,
                 default |-> [block |-> blk, args |-> args]])

\* Builder::stack_alloc
stack_alloc(b, ty) ==
    LET c == create_var(b, Ptr(ty))
    IN  [b |-> push_instr(c.b, [op |-> "StackAlloc", ret |-> c.ret, ty |-> ty]),
         ret |-> c.ret]

\* Builder::stack_free
stack_free(b, addr) == push_instr(b, [op |-> "StackFree", addr |-> addr])

\* Builder::box_alloc
box_alloc(b, ty) ==
    LET c == create_var(b, Boxed(ty))
    IN  [b |-> push_instr(c.b, [op |-> "BoxAlloc", ret |-> c.ret, ty |-> ty]),
         ret |-> c.ret]

\* Builder::box_free
box_free(b, boxed) == push_instr(b, [op |-> "BoxFree", boxed |-> boxed])

\* Builder::box_addr
box_addr(b, boxed) ==
    IF b.panic THEN [b |-> b, ret |-> 0]
    ELSE IF var_type(b, boxed).kind = "Box"
    THEN LET c == create_var(b, Ptr(var_type(b, boxed).of))
         IN  [b |-> push_instr(c.b, [op |-> "BoxAddr", ret |-> c.ret, boxed |-> boxed]),
              ret |-> c.ret]
    ELSE [b |-> Panic(b), ret |-> 0]

\* Builder::load
load(b, addr) ==
    IF b.panic THEN [b |-> b, ret |-> 0]
    ELSE IF var_type(b, addr).kind = "Ptr"
    THEN LET c == create_var(b, var_type(b, addr).to)
         IN  [b |-> push_instr(c.b, [op |-> "Load", ret |-> c.ret, addr |-> addr]),
              ret |-> c.ret]
    ELSE [b |-> Panic(b), ret |-> 0]

\* store with its type check left out
store_unchecked(b, val, addr) ==
    IF b.panic THEN b
    ELSE push_instr(b, [op |-> "Store", val |-> val, addr |-> addr])

\* Builder::store
store(b, val, addr) ==
    IF b.panic THEN b
    ELSE IF var_type(b, addr).kind = "Ptr"
    THEN IF var_type(b, addr).to # var_type(b, val)
         THEN Panic(b)
         ELSE push_instr(b, [op |-> "Store", val |-> val, addr |-> addr])
    ELSE Panic(b)

\* Builder::copy_addr
copy_addr(b, old, new, flags) ==
    IF b.panic THEN b
    ELSE IF var_type(b, old).kind = "Ptr"
    THEN IF var_type(b, new).kind = "Ptr"
         THEN IF var_type(b, old).to # var_type(b, new).to
              THEN Panic(b)
              ELSE push_instr(b, [op |-> "CopyAddr", old |-> old, new |-> new,
                                  flags |-> flags])
         ELSE Panic(b)
    ELSE Panic(b)

\* Builder::const_int
const_int(b, val, ty) ==
    LET c == create_var(b, ty)
    IN  [b |-> push_instr(c.b, [op |-> "ConstInt", ret |-> c.ret, val |-> val]),
         ret |-> c.ret]

\* Builder::func_ref; fs is Module::funcs
func_ref(b, fs, func) ==
    LET c == create_var(b, fs[func].sig)
    IN  [b |-> push_instr(c.b, [op |-> "FuncRef", ret |-> c.ret, func |-> func]),
         ret |-> c.ret]

Reverse(s) == [i \in 1..Len(s) |-> s[Len(s) + 1 - i]]

\* Vec::push in the place of Vec::insert(i0, v)
InsertAtEnd(s, i0, v) == Append(s, v)

\* Vec::insert(i0, v) with a 0-based index i0 <= len
InsertAt(s, i0, v) == SubSeq(s, 1, i0) \o <<v>> \o SubSeq(s, i0 + 1, Len(s))

\* The filter_map of Builder::return_ from operand k on; i counts the INDIRECT
\* operands met so far, kept holds the operands that stay in Term::Return
RECURSIVE return_ops(_, _, _, _, _)
return_ops(b, ops, k, i, kept) ==
    IF b.panic \/ k > Len(ops) THEN [b |-> b, ops |-> kept]
    ELSE
      LET op == ops[k]
      IN  IF is_set(b.vars[op].flags, INDIRECT)
          THEN IF ~InArena(ENTRY, b.blocks)
               THEN [b |-> Panic(b), ops |-> kept]
               ELSE
                 LET params == b.blocks[ENTRY].params
                 IN  IF Len(params) > i /\ is_set(b.vars[params[i + 1]].flags, RETURN)
                     THEN return_ops(copy_addr(b, op, params[i + 1], EMPTY),
                                     ops, k + 1, i + 1, kept)
                     ELSE
                       LET c == create_var(b, var_type(b, op))
                           b1 == [c.b EXCEPT !.vars[c.ret].flags = {RETURN}]
                           b2 == [b1 EXCEPT !.blocks[ENTRY].params = <<c.ret>> \o @]
                       IN  return_ops(copy_addr(b2, op, c.ret, EMPTY),
                                      ops, k + 1, i + 1, kept)
          ELSE return_ops(b, ops, k + 1, i, Append(kept, op))

\* return_ with the INDIRECT operands copied out but left in Term::Return
return_keep_ops(b, ops) ==
    LET r == return_ops(b, ops, 1, 0, <<>>)
    IN  set_term(r.b, [term |-> "Return", ops |-> ops])

\* Builder::return_
return_(b, ops) ==
    LET r == return_ops(b, ops, 1, 0, <<>>)
    IN  set_term(r.b, [term |-> "Return", ops |-> r.ops])

\* Ty::subst(s, depth): Var(d, i) becomes s[i] when d = depth
RECURSIVE subst_ty(_, _, _)
subst_ty(ty, s, depth) ==
    CASE ty.kind = "Var" ->
           IF ty.depth = depth /\ ty.index < Len(s) THEN s[ty.index + 1] ELSE ty
      [] ty.kind = "Ptr" -> Ptr(subst_ty(ty.to, s, depth))
      [] ty.kind = "Box" -> Boxed(subst_ty(ty.of, s, depth))
      [] ty.kind = "Func" ->
           Func([j \in 1..Len(ty.params) |->
                    SigParam(subst_ty(ty.params[j].ty, s, depth), ty.params[j].flags)],
                [j \in 1..Len(ty.rets) |->
                    SigParam(subst_ty(ty.rets[j].ty, s, depth), ty.rets[j].flags)])
      [] ty.kind = "Generic" -> Generic(ty.params, subst_ty(ty.ret, s, depth + 1))
      [] OTHER -> ty

\* Builder::apply, first loop: a stack slot for every OUT return, a result
\* variable for every other return
RECURSIVE apply_rets(_, _, _, _, _)
apply_rets(b, sig_rets, k, ret_args, rets) ==
    IF b.panic \/ k > Len(sig_rets)
    THEN [b |-> b, ret_args |-> ret_args, rets |-> rets]
    ELSE IF is_set(sig_rets[k].flags, FlagOUT)
    THEN LET c == stack_alloc(b, sig_rets[k].ty)
         IN  apply_rets(c.b, sig_rets, k + 1, Append(ret_args, c.ret), rets)
    ELSE LET c == create_var(b, sig_rets[k].ty)
         IN  apply_rets(c.b, sig_rets, k + 1, ret_args, Append(rets, c.ret))

\* the second loop of apply with the slot of an IN parameter left unwritten
RECURSIVE apply_args_no_store(_, _, _, _, _, _)
apply_args_no_store(b, args, sig_params, k, indirect_args, out) ==
    IF b.panic \/ k > Len(args) \/ k > Len(sig_params)
    THEN [b |-> b, indirect_args |-> indirect_args, args |-> out]
    ELSE IF is_set(sig_params[k].flags, FlagIN)
    THEN LET c == stack_alloc(b, sig_params[k].ty)
         IN  apply_args_no_store(c.b, args, sig_params, k + 1,
                                 Append(indirect_args, c.ret), Append(out, c.ret))
    ELSE apply_args_no_store(b, args, sig_params, k + 1, indirect_args,
                             Append(out, args[k]))

\* Builder::apply, second loop: args.zip(sig.params), a slot and a store for
\* every IN parameter
RECURSIVE apply_args(_, _, _, _, _, _)
apply_args(b, args, sig_params, k, indirect_args, out) ==
    IF b.panic \/ k > Len(args) \/ k > Len(sig_params)
    THEN [b |-> b, indirect_args |-> indirect_args, args |-> out]
    ELSE IF is_set(sig_params[k].flags, FlagIN)
    THEN LET c == stack_alloc(b, sig_params[k].ty)
             b1 == store(c.b, args[k], c.ret)
         IN  apply_args(b1, args, sig_params, k + 1,
                        Append(indirect_args, c.ret), Append(out, c.ret))
    ELSE apply_args(b, args, sig_params, k + 1, indirect_args, Append(out, args[k]))

\* Builder::apply, `for arg in indirect_args.into_iter().rev()`: slots is the
\* list already reversed
RECURSIVE apply_free(_, _, _)
apply_free(b, slots, k) ==
    IF b.panic \/ k > Len(slots) THEN b
    ELSE apply_free(stack_free(b, slots[k]), slots, k + 1)

\* Builder::apply, last loop: ret_args is the reversed list, popped from its end
RECURSIVE apply_outs(_, _, _, _, _)
apply_outs(b, sig_rets, k, ret_args, rets) ==
    IF b.panic \/ k > Len(sig_rets) THEN [b |-> b, rets |-> rets]
    ELSE IF is_set(sig_rets[k].flags, FlagOUT)
    THEN IF Len(ret_args) = 0 \/ k - 1 > Len(rets)
         THEN [b |-> Panic(b), rets |-> rets]
         ELSE
           LET stack_slot == ret_args[Len(ret_args)]
               c == load(b, stack_slot)
               b1 == stack_free(c.b, stack_slot)
           IN  apply_outs(b1, sig_rets, k + 1,
                          SubSeq(ret_args, 1, Len(ret_args) - 1),
                          InsertAt(rets, k - 1, c.ret))
    ELSE apply_outs(b, sig_rets, k + 1, ret_args, rets)

\* Builder::apply
apply(b, func, subst, args) ==
    IF b.panic THEN [b |-> b, ret |-> <<>>]
    ELSE
      LET sig0 == var_type(b, func)
          sig == IF sig0.kind = "Generic" THEN subst_ty(sig0.ret, subst, 0) ELSE sig0
      IN  IF sig.kind # "Func" THEN [b |-> Panic(b), ret |-> <<>>]
          ELSE
            LET r1 == apply_rets(b, sig.rets, 1, <<>>, <<>>)
                r2 == apply_args(r1.b, args, sig.params, 1, <<>>, <<>>)
                b3 == push_instr(r2.b, [op |-> "Apply", rets |-> r1.rets, func |-> func,
                                        subst |-> subst, args |-> r1.ret_args \o r2.args])
                b4 == apply_free(b3, Reverse(r2.indirect_args), 1)
                r5 == apply_outs(b4, sig.rets, 1, Reverse(r1.ret_args), r1.rets)
            IN  [b |-> r5.b, ret |-> r5.rets]

\* intrinsics::INTRINSICS; sig!(a, b => c) builds a signature of plain params
sig2(a, b, r) == Func(<<SigParam(a, EMPTY), SigParam(b, EMPTY)>>, <<SigParam(r, EMPTY)>>)

INTRINSICS ==
    [n \in {"add_i32", "sub_i32", "mul_i32", "div_i32", "rem_i32"} |-> sig2(I32, I32, I32)]
    @@ [n \in {"eq_i32", "ne_i32", "lt_i32", "le_i32", "gt_i32", "ge_i32"} |->
            sig2(I32, I32, Bool8)]
    @@ [n \in {"ptr_offset"} |->
            Generic(<<"Type">>, sig2(Ptr(TVar(0)), ISize, Ptr(TVar(0))))]

\* Builder::intrinsic, `sig.rets.iter().map(|r| self.create_var(..))`
RECURSIVE intrinsic_rets(_, _, _, _)
intrinsic_rets(b, sig_rets, k, rets) ==
    IF k > Len(sig_rets) THEN [b |-> b, rets |-> rets]
    ELSE LET c == create_var(b, sig_rets[k].ty)
         IN  intrinsic_rets(c.b, sig_rets, k + 1, Append(rets, c.ret))

\* intrinsic with the generic quantifier left on the signature
intrinsic_no_unwrap(b, name, args) ==
    IF b.panic THEN [b |-> b, ret |-> <<>>]
    ELSE IF name \in DOMAIN INTRINSICS
    THEN LET sig == INTRINSICS[name]
         IN  IF sig.kind = "Func"
             THEN LET r == intrinsic_rets(b, sig.rets, 1, <<>>)
                  IN  [b |-> push_instr(r.b, [op |-> "Intrinsic", name |-> name,
                                              rets |-> r.rets, args |-> args]),
                       ret |-> r.rets]
             ELSE [b |-> Panic(b), ret |-> <<>>]
    ELSE [b |-> Panic(b), ret |-> <<>>]

\* Builder::intrinsic
intrinsic(b, name, args) ==
    IF b.panic THEN [b |-> b, ret |-> <<>>]
    ELSE IF name \in DOMAIN INTRINSICS
    THEN LET sig0 == INTRINSICS[name]
             sig == IF sig0.kind = "Generic" THEN sig0.ret ELSE sig0
         IN  IF sig.kind = "Func"
             THEN LET r == intrinsic_rets(b, sig.rets, 1, <<>>)
                  IN  [b |-> push_instr(r.b, [op |-> "Intrinsic", name |-> name,
                                              rets |-> r.rets, args |-> args]),
                       ret |-> r.rets]
             ELSE [b |-> Panic(b), ret |-> <<>>]
    ELSE [b |-> Panic(b), ret |-> <<>>]

-----------------------------------------------------------------------------
(* The builder as a state machine *)

\* the inputs the operations are tried on
Tys == {I32, TVar(0), TVar(1), Ptr(I32)}
Vars == 1..Len(vars)
Blocks == 1..Len(blocks)
SeqsUpTo(S, n) == UNION {[1..k -> S] : k \in 0..n}

Cur == [vars |-> vars, blocks |-> blocks, block_id |-> block_id, panic |-> panicked]

\* MiddleCtx::new on a fresh object module: the four cells are empty (0) and
\* the module declares no function; declare_calls logs each declare_function
NewMiddleCtx ==
    [copy_trivial |-> 0, move_trivial |-> 0, copy_move_nop |-> 0, drop_nop |-> 0,
     functions |-> <<>>, declare_calls |-> <<>>]

\* no function is being lowered
NoFnCtx ==
    [params |-> <<>>, insts |-> <<>>, values |-> 0,
     info_cache |-> <<>>, load_cache |-> <<>>]

\* Package::new: the three maps are empty
NewPackage == [externs |-> <<>>, globals |-> <<>>, bodies |-> <<>>]

\* no body is being built; an Option is a sequence of at most one element
NoBodyBuilder == [body |-> <<>>, current_block |-> <<>>]

\* a VM that holds no program
NoVM == [memory |-> [stack |-> <<>>, order |-> "Little"], frames |-> <<>>,
         fns |-> <<>>, calls |-> <<>>, result |-> <<>>, panic |-> FALSE]

Pre == [vars |-> vars, blocks |-> blocks, block_id |-> block_id]

NoOp == [op |-> "none", a |-> <<>>, ret |-> <<>>, pre |-> [vars |-> <<>>, blocks |-> <<>>, block_id |-> ENTRY]]

Running == ~panicked /\ ~finished /\ nops < MaxOps

\* the builder state b becomes the state; op, a and ret describe the call
Commit(b, op, a, ret) ==
    /\ vars' = b.vars
    /\ blocks' = b.blocks
    /\ block_id' = b.block_id
    /\ panicked' = b.panic
    /\ last' = [op |-> op, a |-> a, ret |-> ret, pre |-> Pre]
    /\ nops' = nops + 1
    /\ UNCHANGED <<funcs, finished, target, datas, mcx, fx, anon_count, host, pkg, bb, vm>>

\* Module::define_body on a module whose declared functions are fs, for a
\* body fresh from Module::declare_body
InitBuilder(fs) ==
    /\ funcs = fs
    /\ vars = <<>>
    /\ blocks = <<>>
    /\ block_id = ENTRY
    /\ panicked = FALSE
    /\ finished = FALSE
    /\ last = NoOp
    /\ nops = 0
    /\ target = [ptr_size |-> 8, endianness |-> "Little"]
    /\ datas = <<>>
    /\ mcx = NewMiddleCtx
    /\ fx = NoFnCtx
    /\ anon_count = 0
    /\ host = "Little"
    /\ pkg = NewPackage
    /\ bb = NoBodyBuilder
    /\ vm = NoVM

CreateVar ==
    /\ Running
    /\ \E ty \in Tys :
         LET c == create_var(Cur, ty) IN Commit(c.b, "create_var", <<ty>>, c.ret)

CreateBlock ==
    /\ Running
    /\ LET c == create_block(Cur) IN Commit(c.b, "create_block", <<>>, c.ret)

SetBlock ==
    /\ Running
    /\ \E blk \in Blocks : Commit(set_block(Cur, blk), "set_block", <<blk>>, <<>>)

AddParam ==
    /\ Running
    /\ \E blk \in Blocks, ty \in Tys :
         LET c == add_param(Cur, blk, ty) IN Commit(c.b, "add_param", <<blk, ty>>, c.ret)

Unreachable ==
    /\ Running
    /\ Commit(unreachable(Cur), "unreachable", <<>>, <<>>)

Return ==
    /\ Running
    /\ \E ops \in SeqsUpTo(Vars, MaxRetOps) :
         Commit(return_(Cur, ops), "return_", <<ops>>, <<>>)

Br ==
    /\ Running
    /\ \E blk \in Blocks :
         Commit(br(Cur, blk, <<>>), "br", <<blk>>, <<>>)

Switch ==
    /\ Running
    /\ \E op \in Vars, blk \in Blocks, dflt \in Blocks :
         Commit(switch_build(Cur, op, <<[val |-> 0, to |-> [block |-> blk, args |-> <<>>]]>>,
                             dflt, <<>>),
                "switch", <<op, blk, dflt>>, <<>>)

StackAlloc ==
    /\ Running
    /\ \E ty \in Tys :
         LET c == stack_alloc(Cur, ty) IN Commit(c.b, "stack_alloc", <<ty>>, c.ret)

StackFree ==
    /\ Running
    /\ \E addr \in Vars : Commit(stack_free(Cur, addr), "stack_free", <<addr>>, <<>>)

BoxAlloc ==
    /\ Running
    /\ \E ty \in Tys :
         LET c == box_alloc(Cur, ty) IN Commit(c.b, "box_alloc", <<ty>>, c.ret)

Load ==
    /\ Running
    /\ \E addr \in Vars :
         LET c == load(Cur, addr) IN Commit(c.b, "load", <<addr>>, c.ret)

Store ==
    /\ Running
    /\ \E val \in Vars, addr \in Vars :
         Commit(store(Cur, val, addr), "store", <<val, addr>>, <<>>)

CopyAddr ==
    /\ Running
    /\ \E old \in Vars, new \in Vars, flags \in {EMPTY, {"TAKE", "INIT"}} :
         Commit(copy_addr(Cur, old, new, flags), "copy_addr", <<old, new, flags>>, <<>>)

ConstInt ==
    /\ Running
    /\ \E ty \in {I32} :
         LET c == const_int(Cur, 7, ty) IN Commit(c.b, "const_int", <<7, ty>>, c.ret)

FuncRef ==
    /\ Running
    /\ \E func \in 1..Len(funcs) :
         LET c == func_ref(Cur, funcs, func) IN Commit(c.b, "func_ref", <<func>>, c.ret)

\* Builder::finish consumes the builder and does nothing else
Finish ==
    /\ ~panicked /\ ~finished
    /\ finished' = TRUE
    /\ last' = [op |-> "finish", a |-> <<>>, ret |-> <<>>, pre |-> Pre]
    /\ UNCHANGED <<funcs, vars, blocks, block_id, panicked, nops, target, datas, mcx, fx, anon_count, host, pkg, bb, vm>>

-----------------------------------------------------------------------------
(* Block parameters, variables and returns *)

NextParam ==
    \/ CreateBlock
    \/ SetBlock
    \/ AddParam
    \/ CreateVar
    \/ ConstInt
    \/ Load
    \/ Return

SpecParam == InitBuilder(<<>>) /\ [][NextParam]_vars_all

\* the instructions the last operation appended to block blk
NewInstrs(blk) ==
    IF InArena(blk, last.pre.blocks)
    THEN SubSeq(blocks[blk].instrs, Len(last.pre.blocks[blk].instrs) + 1,
                Len(blocks[blk].instrs))
    ELSE blocks[blk].instrs

\* C1: add_param(block, ty) returns a fresh variable, appended as the last
\* parameter of `block`; for ty = Var(_) it has type Ptr(ty) and the INDIRECT
\* flag, for any other ty it has type ty and no flags.  No operation changes a
\* variable once it is created, so every parameter requested with a Var(_) type
\* keeps its pointer type and its INDIRECT flag.
C1_AddParam ==
    /\ (last.op = "add_param" /\ ~panicked) =>
         LET blk == last.a[1]
             ty == last.a[2]
             v == last.ret
         IN  /\ v = Len(last.pre.vars) + 1
             /\ Len(vars) = v
             /\ blocks[blk].params = Append(last.pre.blocks[blk].params, v)
             /\ (ty.kind = "Var" =>
                   /\ vars[v].ty = Ptr(ty)
                   /\ is_set(vars[v].flags, INDIRECT))
             /\ (ty.kind # "Var" =>
                   /\ vars[v].ty = ty
                   /\ vars[v].flags = EMPTY)
    /\ \A v \in 1..Len(last.pre.vars) : v <= Len(vars) /\ vars[v] = last.pre.vars[v]

\* C1 witness: a second parameter of type Var(_) was added to a block after a
\* parameter of another type
C1_Witness ==
    /\ last.op = "add_param" /\ ~panicked
    /\ last.a[2].kind = "Var"
    /\ Len(blocks[last.a[1]].params) = 2
    /\ vars[blocks[last.a[1]].params[1]].ty = I32

\* C2: every variable of the body whose type is a type variable Var(_) carries
\* the INDIRECT flag (invariant B1)
C2_InvariantB1 ==
    \A v \in Vars : vars[v].ty.kind = "Var" => is_set(vars[v].flags, INDIRECT)

\* the operands of the last return_ call that carried INDIRECT when it was made
IndirectOps == SelectSeq(last.a[1], LAMBDA op : is_set(last.pre.vars[op].flags, INDIRECT))

DirectOps == SelectSeq(last.a[1], LAMBDA op : ~is_set(last.pre.vars[op].flags, INDIRECT))

\* C3: return_(ops) leaves exactly the non-INDIRECT operands, in their order, in
\* Term::Return of the current block; for each INDIRECT operand, in order, it
\* appends CopyAddr(op, ret_param, EMPTY) to the current block, ret_param being
\* a RETURN-flagged parameter of the entry block; the parameters it inserts are
\* fresh RETURN-flagged variables of the operand's type put in front of the
\* entry block's parameters, and it inserts one for every INDIRECT operand when
\* the entry block had no RETURN parameter.
C3_ReturnRewrite ==
    (last.op = "return_" /\ ~panicked) =>
      LET pre == last.pre
          cur == pre.block_id
          new_instrs == NewInstrs(cur)
          n_new == Len(vars) - Len(pre.vars)
          params == blocks[ENTRY].params
      IN  /\ blocks[cur].term = [term |-> "Return", ops |-> DirectOps]
          /\ Len(new_instrs) = Len(IndirectOps)
          /\ \A j \in 1..Len(IndirectOps) :
               /\ new_instrs[j].op = "CopyAddr"
               /\ new_instrs[j].old = IndirectOps[j]
               /\ new_instrs[j].flags = EMPTY
               /\ \E q \in 1..Len(params) : params[q] = new_instrs[j].new
               /\ is_set(vars[new_instrs[j].new].flags, RETURN)
               /\ vars[new_instrs[j].new].ty = pre.vars[IndirectOps[j]].ty
          /\ \A blk \in 1..Len(blocks) : blk # cur => blocks[blk].instrs = pre.blocks[blk].instrs
          /\ (IndirectOps # <<>> =>
                /\ Len(params) = Len(pre.blocks[ENTRY].params) + n_new
                /\ SubSeq(params, n_new + 1, Len(params)) = pre.blocks[ENTRY].params
                /\ \A q \in 1..n_new :
                     /\ params[q] > Len(pre.vars)
                     /\ vars[params[q]].flags = {RETURN}
                /\ ((\A q \in 1..Len(pre.blocks[ENTRY].params) :
                        ~is_set(pre.vars[pre.blocks[ENTRY].params[q]].flags, RETURN))
                    => n_new = Len(IndirectOps)))
          /\ (IndirectOps = <<>> => vars = pre.vars /\ params = pre.blocks[ENTRY].params)

\* C3 witness: a return of an INDIRECT and a plain operand that found no RETURN
\* parameter and inserted one
C3_Witness ==
    /\ last.op = "return_" /\ ~panicked
    /\ Len(IndirectOps) >= 1
    /\ Len(DirectOps) >= 1
    /\ Len(vars) > Len(last.pre.vars)

\* C3 witness of the other branch: the expected RETURN parameter was there
C3_WitnessReuse ==
    /\ last.op = "return_" /\ ~panicked
    /\ Len(IndirectOps) >= 1
    /\ Len(vars) = Len(last.pre.vars)

\* the RETURN parameters the last return_ call copied its INDIRECT operands
\* into, in the order of the operands
ReturnTargets ==
    [j \in 1..Len(IndirectOps) |-> NewInstrs(last.pre.block_id)[j].new]

\* the positions, counted from 0, of the entry block's parameters that carry
\* RETURN
ReturnParams ==
    {q - 1 : q \in {q \in 1..Len(blocks[ENTRY].params) :
                      is_set(vars[blocks[ENTRY].params[q]].flags, RETURN)}}

\* C24: two return_ calls on one body, made one after the other, that each
\* return k INDIRECT operands copy the j-th of them into the same RETURN
\* parameter of the entry block, and the entry block then has exactly k
\* RETURN parameters, at positions 0..k-1
C24_ReturnStable ==
    [][(/\ last.op = "return_" /\ ~panicked
        /\ last'.op = "return_" /\ ~panicked'
        /\ Len(IndirectOps) = Len(IndirectOps')) =>
          /\ ReturnTargets' = ReturnTargets
          /\ ReturnParams' = 0..(Len(IndirectOps') - 1)]_vars_all

-----------------------------------------------------------------------------
(* Apply *)

\* the signatures tried: every mix and order of OUT / plain returns and of
\* IN / plain parameters, of I32 values or, under a generic quantifier, of
\* values of the type parameter (these one entry shorter)
SigOf(t, ps, rs) ==
    Func([j \in 1..Len(ps) |-> SigParam(t, ps[j])], [j \in 1..Len(rs) |-> SigParam(t, rs[j])])

SigShapes ==
    {pr \in SeqsUpTo({EMPTY, {FlagIN}}, MaxSig) \X SeqsUpTo({EMPTY, {FlagOUT}}, MaxSig) :
        Len(pr[1]) + Len(pr[2]) <= MaxSig}

Sigs ==
    {SigOf(I32, pr[1], pr[2]) : pr \in SigShapes}
    \cup {Generic(<<"Type">>, SigOf(TVar(0), pr[1], pr[2])) :
             pr \in {x \in SigShapes : Len(x[1]) + Len(x[2]) < MaxSig}}

\* the substitutions handed to apply for a callee of type ty
SubstsFor(ty) == IF ty.kind = "Generic" THEN {<<I32>>} ELSE {<<>>}

\* the argument lists handed to apply for a callee of type ty: shorter than,
\* as long as and longer than its parameter list
ArgsFor(ty) ==
    CASE ty.kind = "Func" -> SeqsUpTo(Vars, Len(ty.params) + 1)
      [] ty.kind = "Generic" -> SeqsUpTo(Vars, Len(ty.ret.params) + 1)
      [] OTHER -> {<<>>}

Apply ==
    /\ Running
    /\ Len(vars) < MaxVars
    /\ \E func \in Vars :
         \E subst \in SubstsFor(vars[func].ty), args \in ArgsFor(vars[func].ty) :
           LET c == apply(Cur, func, subst, args)
           IN  Commit(c.b, "apply", <<func, subst, args>>, c.ret)

\* Module::declare_func was called once, with any of the signatures
InitApply == \E sig \in Sigs : InitBuilder(<<[sig |-> sig]>>)

NextApply ==
    \/ CreateBlock
    \/ FuncRef
    \/ ConstInt
    \/ Apply

SpecApply == InitApply /\ [][NextApply]_vars_all

\* the last operation was an apply that ran to its end
Applied == last.op = "apply" /\ ~panicked

\* the callee's signature as declared (under its quantifier, if it has one)
A_sig ==
    LET t == last.pre.vars[last.a[1]].ty IN IF t.kind = "Generic" THEN t.ret ELSE t

\* what the substitution handed to apply makes of a type of the signature
A_ty(t) == IF t.kind = "Var" THEN last.a[2][t.index + 1] ELSE t

A_args == last.a[3]

\* the instructions the apply emitted, and the place of the Apply among them
A_new == NewInstrs(last.pre.block_id)

A_pos(op) == {q \in 1..Len(A_new) : A_new[q].op = op}

A_call == CHOOSE q \in A_pos("Apply") : TRUE

IsOut(i) == is_set(A_sig.rets[i].flags, FlagOUT)

IsIn(k) == is_set(A_sig.params[k].flags, FlagIN)

\* the number of OUT returns, of other returns, among the first i returns
OutRank(i) == Cardinality({j \in 1..i : IsOut(j)})

PlainRank(i) == Cardinality({j \in 1..i : ~IsOut(j)})

NumOut == OutRank(Len(A_sig.rets))

\* the arguments that met a parameter: args.zip(&sig.params)
NumZipped == IF Len(A_args) < Len(A_sig.params) THEN Len(A_args) ELSE Len(A_sig.params)

StackAllocs == [j \in 1..Len(SelectSeq(A_new, LAMBDA x : x.op = "StackAlloc")) |->
                  SelectSeq(A_new, LAMBDA x : x.op = "StackAlloc")[j].ret]

StackFrees == [j \in 1..Len(SelectSeq(A_new, LAMBDA x : x.op = "StackFree")) |->
                  SelectSeq(A_new, LAMBDA x : x.op = "StackFree")[j].addr]

\* C4: the stack slots an apply allocates are each freed once, after the Apply
\* instruction, in exactly the reverse of the order of their allocation
C4_StackLIFO ==
    Applied =>
      /\ Cardinality(A_pos("Apply")) = 1
      /\ \A q \in A_pos("StackFree") : q > A_call
      /\ StackFrees = Reverse(StackAllocs)

\* C4, the part that holds: every slot is freed exactly once, after the Apply
C4_FreedOnce ==
    Applied =>
      /\ Cardinality(A_pos("Apply")) = 1
      /\ \A q \in A_pos("StackFree") : q > A_call
      /\ Len(StackFrees) = Len(StackAllocs)
      /\ \A j \in 1..Len(StackAllocs) :
           Cardinality({q \in 1..Len(StackFrees) : StackFrees[q] = StackAllocs[j]}) = 1

\* C5: apply returns one variable per return of the substituted signature, in
\* signature order, of the return's type: for an OUT return the variable a Load
\* of its out-slot defines, the slot being the leading argument of that rank;
\* for any other return the result of the Apply instruction of that rank
C5_ApplyRets ==
    Applied =>
      /\ Cardinality(A_pos("Apply")) = 1
      /\ Len(last.ret) = Len(A_sig.rets)
      /\ Len(A_new[A_call].rets) = Len(A_sig.rets) - NumOut
      /\ \A i \in 1..Len(A_sig.rets) :
           /\ vars[last.ret[i]].ty = A_ty(A_sig.rets[i].ty)
           /\ IsOut(i) =>
                LET slot == A_new[A_call].args[OutRank(i)]
                IN  /\ vars[slot].ty = Ptr(A_ty(A_sig.rets[i].ty))
                    /\ \E q \in A_pos("StackAlloc") : A_new[q].ret = slot
                    /\ \E q \in A_pos("Load") :
                         A_new[q].ret = last.ret[i] /\ A_new[q].addr = slot
           /\ ~IsOut(i) => A_new[A_call].rets[PlainRank(i)] = last.ret[i]
      /\ \A i, j \in 1..Len(last.ret) : i # j => last.ret[i] # last.ret[j]

\* C5 witness: an OUT return between two plain returns
C5_Witness ==
    /\ Applied
    /\ Len(A_sig.rets) = 3
    /\ ~IsOut(1) /\ IsOut(2) /\ ~IsOut(3)

\* C5 witness: a generic callee with an OUT return after a plain one
C5_WitnessGeneric ==
    /\ Applied
    /\ last.pre.vars[last.a[1]].ty.kind = "Generic"
    /\ Len(A_sig.rets) = 2
    /\ ~IsOut(1) /\ IsOut(2)

\* C6: for every OUT return the slot is allocated before the Apply, loaded once
\* after it and before the slot is freed, and nothing the builder emits stores
\* to it; for every IN parameter that met an argument the slot is allocated,
\* then the argument is stored to it, once, before the Apply, the slot is what
\* the Apply passes, and it is freed only after the Apply
C6_RoundTrip ==
    Applied =>
      /\ Cardinality(A_pos("Apply")) = 1
      /\ \A i \in 1..Len(A_sig.rets) :
           IsOut(i) =>
             LET slot == A_new[A_call].args[OutRank(i)]
                 loads == {q \in A_pos("Load") : A_new[q].addr = slot}
                 frees == {q \in A_pos("StackFree") : A_new[q].addr = slot}
             IN  /\ \E q \in A_pos("StackAlloc") : A_new[q].ret = slot /\ q < A_call
                 /\ Cardinality(loads) = 1
                 /\ \A q \in loads : q > A_call /\ A_new[q].ret = last.ret[i]
                 /\ \A q \in loads, f \in frees : q < f
                 /\ frees # {}
                 /\ \A q \in A_pos("Store") : A_new[q].addr # slot
      /\ \A k \in 1..NumZipped :
           IsIn(k) =>
             LET slot == A_new[A_call].args[NumOut + k]
                 stores == {q \in A_pos("Store") : A_new[q].addr = slot}
                 frees == {q \in A_pos("StackFree") : A_new[q].addr = slot}
             IN  /\ vars[slot].ty = Ptr(A_ty(A_sig.params[k].ty))
                 /\ Cardinality(stores) = 1
                 /\ \A q \in stores :
                      /\ q < A_call
                      /\ A_new[q].val = A_args[k]
                      /\ \E a \in A_pos("StackAlloc") : A_new[a].ret = slot /\ a < q
                 /\ frees # {}
                 /\ \A f \in frees : f > A_call

\* C6 witness: a call with an OUT return and an IN parameter
C6_Witness ==
    /\ Applied
    /\ \E i \in 1..Len(A_sig.rets) : IsOut(i)
    /\ \E k \in 1..NumZipped : IsIn(k)

\* C18: the Apply instruction's arguments are the OUT slots, in signature
\* order, followed by exactly one entry for each argument handed to apply, in
\* order: the fresh slot for an argument whose parameter is IN, the argument
\* itself otherwise; its rets are exactly the variables of the other returns
C18_ApplyArgs ==
    Applied =>
      LET call == A_new[A_call]
          fresh(v) == v > Len(last.pre.vars) /\ \E q \in A_pos("StackAlloc") : A_new[q].ret = v
      IN  /\ Cardinality(A_pos("Apply")) = 1
          /\ Len(call.args) = NumOut + Len(A_args)
          /\ \A i \in 1..Len(A_sig.rets) :
                IsOut(i) =>
                  /\ fresh(call.args[OutRank(i)])
                  /\ vars[call.args[OutRank(i)]].ty = Ptr(A_ty(A_sig.rets[i].ty))
          /\ \A k \in 1..Len(A_args) :
                IF k <= Len(A_sig.params) /\ IsIn(k)
                THEN fresh(call.args[NumOut + k])
                ELSE call.args[NumOut + k] = A_args[k]
          /\ Len(call.rets) = Len(A_sig.rets) - NumOut
          /\ \A i \in 1..Len(A_sig.rets) :
                ~IsOut(i) => call.rets[PlainRank(i)] = last.ret[i]

-----------------------------------------------------------------------------
(* Type checks of store and copy_addr *)

NextCheck ==
    \/ CreateBlock
    \/ CreateVar
    \/ StackAlloc
    \/ Store
    \/ CopyAddr

SpecCheck == InitBuilder(<<>>) /\ [][NextCheck]_vars_all

\* the last operation appended exactly `instr` to the current block and wrote
\* nothing else
AppendedOnly(instr) ==
    /\ ~panicked
    /\ vars = last.pre.vars
    /\ Len(blocks) = Len(last.pre.blocks)
    /\ \A blk \in 1..Len(blocks) :
         /\ blocks[blk].params = last.pre.blocks[blk].params
         /\ blocks[blk].term = last.pre.blocks[blk].term
         /\ blocks[blk].instrs =
              IF blk = block_id THEN Append(last.pre.blocks[blk].instrs, instr)
              ELSE last.pre.blocks[blk].instrs

\* the last operation panicked and left the body as it was
AbortedUntouched ==
    /\ panicked
    /\ vars = last.pre.vars
    /\ blocks = last.pre.blocks

StoreTypesOk ==
    last.pre.vars[last.a[2]].ty = Ptr(last.pre.vars[last.a[1]].ty)

CopyTypesOk ==
    \E t \in {last.pre.vars[v].ty.to : v \in {w \in 1..Len(last.pre.vars) :
                                                last.pre.vars[w].ty.kind = "Ptr"}} :
       /\ last.pre.vars[last.a[1]].ty = Ptr(t)
       /\ last.pre.vars[last.a[2]].ty = Ptr(t)

\* C7: with a current block to write to, store(val, addr) appends
\* Store { val, addr } if type_of(addr) = Ptr(type_of(val)) and otherwise
\* panics with the body untouched; copy_addr(old, new, flags) appends
\* CopyAddr { old, new, flags } if both types are Ptr(T) for one T and otherwise
\* panics with the body untouched
C7_TypeChecks ==
    /\ (last.op = "store" /\ InArena(last.pre.block_id, last.pre.blocks)) =>
         IF StoreTypesOk
         THEN AppendedOnly([op |-> "Store", val |-> last.a[1], addr |-> last.a[2]])
         ELSE AbortedUntouched
    /\ (last.op = "copy_addr" /\ InArena(last.pre.block_id, last.pre.blocks)) =>
         IF CopyTypesOk
         THEN AppendedOnly([op |-> "CopyAddr", old |-> last.a[1], new |-> last.a[2],
                            flags |-> last.a[3]])
         ELSE AbortedUntouched

\* C7 witness: a well-typed store was appended
C7_Witness ==
    /\ last.op = "store"
    /\ StoreTypesOk
    /\ ~panicked
    /\ Len(blocks[block_id].instrs) > Len(last.pre.blocks[block_id].instrs)

\* C7 witness: a copy_addr between pointers to different types aborted
C7_WitnessAbort ==
    /\ last.op = "copy_addr"
    /\ last.pre.vars[last.a[1]].ty.kind = "Ptr"
    /\ last.pre.vars[last.a[2]].ty.kind = "Ptr"
    /\ panicked
    /\ Len(blocks) > 0

\* C7 witness: a store of a value into a pointer to another type aborted
C7_WitnessStoreAbort ==
    /\ last.op = "store"
    /\ last.pre.vars[last.a[2]].ty.kind = "Ptr"
    /\ panicked
    /\ Len(blocks) > 0

-----------------------------------------------------------------------------
(* Terminators and finish *)

NextTerm ==
    \/ CreateBlock
    \/ SetBlock
    \/ CreateVar
    \/ Unreachable
    \/ Br
    \/ Switch
    \/ Return
    \/ Finish

SpecTerm == InitBuilder(<<>>) /\ [][NextTerm]_vars_all

\* the blocks a block's terminator can pass control to
Successors(blk) ==
    LET t == blocks[blk].term
    IN  CASE t.term = "Br" -> {t.to.block}
          [] t.term = "Switch" ->
               {t.cases[j].to.block : j \in 1..Len(t.cases)} \cup {t.default.block}
          [] OTHER -> {}

RECURSIVE ReachableFrom(_)
ReachableFrom(S) ==
    LET N == S \cup UNION {Successors(blk) : blk \in S}
    IN  IF N = S THEN S ELSE ReachableFrom(N)

\* the blocks reachable from the entry block
Reachable == IF InArena(ENTRY, blocks) THEN ReachableFrom({ENTRY}) ELSE {}

\* C8: after finish(), every block reachable from the entry block has a
\* terminator
C8_TerminatorTotality ==
    finished => \A blk \in Reachable : blocks[blk].term # NoTerm

-----------------------------------------------------------------------------
(* Intrinsics *)

\* the names intrinsic is called with: the registered ones and two others
IntrinsicNames == DOMAIN INTRINSICS \cup {"add_i64", "unknown"}

RECURSIVE CountInstrs(_, _, _)
CountInstrs(bs, op, k) ==
    IF k > Len(bs) THEN 0
    ELSE Len(SelectSeq(bs[k].instrs, LAMBDA x : x.op = op)) + CountInstrs(bs, op, k + 1)

Intrinsic ==
    /\ Running
    /\ CountInstrs(blocks, "Intrinsic", 1) < MaxIntrinsics
    /\ \E name \in IntrinsicNames, args \in SeqsUpTo(Vars, 2) :
         LET c == intrinsic(Cur, name, args)
         IN  Commit(c.b, "intrinsic", <<name, args>>, c.ret)

NextIntrinsic ==
    \/ CreateBlock
    \/ ConstInt
    \/ Intrinsic

SpecIntrinsic == InitBuilder(<<>>) /\ [][NextIntrinsic]_vars_all

Arithmetic == {"add_i32", "sub_i32", "mul_i32", "div_i32", "rem_i32"}

Comparisons == {"eq_i32", "ne_i32", "lt_i32", "le_i32", "gt_i32", "ge_i32"}

\* C9: with a current block to write to, intrinsic(name, args) for each of the
\* twelve mandatory names appends exactly one Intrinsic { name, rets, args } and
\* returns as rets one fresh variable per return of the registered signature
\* (one: i32 for the arithmetic, the 8-bit boolean for the comparisons, and the
\* return type *T of ptr_offset's inner signature); for any other name it
\* panics, having appended no instruction and created no variable
C9_IntrinsicLookup ==
    (last.op = "intrinsic" /\ InArena(last.pre.block_id, last.pre.blocks)) =>
      LET name == last.a[1]
          new_var == Len(last.pre.vars) + 1
      IN  IF name \in Arithmetic \cup Comparisons \cup {"ptr_offset"}
          THEN /\ ~panicked
               /\ last.ret = <<new_var>>
               /\ Len(vars) = new_var
               /\ SubSeq(vars, 1, Len(last.pre.vars)) = last.pre.vars
               /\ vars[new_var].ty =
                    CASE name \in Arithmetic -> I32
                      [] name \in Comparisons -> Bool8
                      [] OTHER -> Ptr(TVar(0))
               /\ NewInstrs(block_id) =
                    <<[op |-> "Intrinsic", name |-> name, rets |-> last.ret,
                       args |-> last.a[2]]>>
               /\ \A blk \in 1..Len(blocks) :
                    blk # block_id => blocks[blk] = last.pre.blocks[blk]
          ELSE AbortedUntouched

\* C9 witness: the generic ptr_offset was looked up and its result created
C9_Witness ==
    /\ last.op = "intrinsic"
    /\ last.a[1] = "ptr_offset"
    /\ Len(last.a[2]) = 2
    /\ ~panicked

\* C9 witness: a name that is not registered was looked up in a body that has
\* a block and a variable
C9_WitnessUnknown ==
    /\ last.op = "intrinsic"
    /\ last.a[1] \notin DOMAIN INTRINSICS
    /\ Len(blocks) > 0
    /\ Len(vars) > 0
    /\ panicked

-----------------------------------------------------------------------------
(* The backend's data objects (backend-clif/src/middle.rs) *)

\* the bytes of a u64, most significant first; the values tried are below
\* 2^31, so the four high-order bytes are zero
to_be_bytes(value) ==
    [i \in 1..8 |-> IF i <= 4 THEN 0 ELSE (value \div (256 ^ (8 - i))) % 256]

\* the bytes of a u64, least significant first
to_le_bytes(value) ==
    [i \in 1..8 |-> IF i > 4 THEN 0 ELSE (value \div (256 ^ (i - 1))) % 256]

\* MiddleCtx::write_u64 on a module of target tgt: the bytes after the call
write_u64(tgt, bytes, value) ==
    LET ptr_size == tgt.ptr_size
        mid == 8 - ptr_size
        be == SubSeq(to_be_bytes(value), mid + 1, 8)
        le == SubSeq(to_le_bytes(value), 1, mid)
    IN  IF tgt.endianness = "Big"
        THEN bytes \o be \o be \o be
        ELSE bytes \o le \o le \o le

\* Vec::resize(new_len, fill)
resize(bytes, new_len, fill) ==
    IF Len(bytes) >= new_len THEN SubSeq(bytes, 1, new_len)
    ELSE bytes \o [i \in 1..(new_len - Len(bytes)) |-> fill]

\* a fresh DataContext
NewDataContext ==
    [bytes |-> <<>>, function_decls |-> <<>>, function_relocs |-> <<>>,
     data_decls |-> <<>>, data_relocs |-> <<>>]

\* Module::declare_func_in_data: the function is imported into the data
\* context and named by its index there
declare_func_in_data(dcx, func) ==
    [dcx |-> [dcx EXCEPT !.function_decls = Append(@, func)],
     ret |-> Len(dcx.function_decls) + 1]

\* DataContext::write_function_addr
write_function_addr(dcx, offset, func) ==
    [dcx EXCEPT !.function_relocs = Append(@, [offset |-> offset, func |-> func])]

\* DataContext::define
define(dcx, bytes) == [dcx EXCEPT !.bytes = bytes]

\* alloc_vwt with the `bytes.resize(ptr_size * 6, 0)` left out
alloc_vwt_no_resize(tgt, vwt) ==
    LET ptr_size == tgt.ptr_size
        d1 == declare_func_in_data(NewDataContext, vwt.copy_fn)
        d2 == declare_func_in_data(d1.dcx, vwt.move_fn)
        d3 == declare_func_in_data(d2.dcx, vwt.drop_fn)
        b1 == write_u64(tgt, <<>>, vwt.size)
        b2 == write_u64(tgt, b1, vwt.align)
        b3 == write_u64(tgt, b2, vwt.stride)
        r1 == write_function_addr(d3.dcx, ptr_size * 3, d1.ret)
        r2 == write_function_addr(r1, ptr_size * 4, d2.ret)
        r3 == write_function_addr(r2, ptr_size * 5, d3.ret)
    IN  define(r3, b3)

\* MiddleCtx::alloc_vwt: the data object defined for the table
alloc_vwt(tgt, vwt) ==
    LET ptr_size == tgt.ptr_size
        d1 == declare_func_in_data(NewDataContext, vwt.copy_fn)
        d2 == declare_func_in_data(d1.dcx, vwt.move_fn)
        d3 == declare_func_in_data(d2.dcx, vwt.drop_fn)
        b1 == write_u64(tgt, <<>>, vwt.size)
        b2 == write_u64(tgt, b1, vwt.align)
        b3 == write_u64(tgt, b2, vwt.stride)
        b4 == resize(b3, ptr_size * 6, 0)
        r1 == write_function_addr(d3.dcx, ptr_size * 3, d1.ret)
        r2 == write_function_addr(r1, ptr_size * 4, d2.ret)
        r3 == write_function_addr(r2, ptr_size * 5, d3.ret)
    IN  define(r3, b4)

\* the value-witness tables tried
Vwts ==
    [size : {1, 258, 16909060}, align : {1, 8}, stride : {8, 16909064},
     copy_fn : {1, 3}, move_fn : {2}, drop_fn : {2, 3}]

Targets == [ptr_size : {4, 8}, endianness : {"Big", "Little"}]

\* Module::declare_anonymous_data: the next DataId, declared and not defined
declare_anonymous_data(ds) ==
    [datas |-> Append(ds, [name |-> "", linkage |-> "Local", defined |-> FALSE]),
     ret |-> Len(ds) + 1]

\* Module::declare_data(name, linkage, ..): a name declared before keeps its
\* DataId, a new name gets the next one
declare_data(ds, name, linkage) ==
    LET old == {i \in 1..Len(ds) : ds[i].name = name}
    IN  IF old # {}
        THEN [datas |-> ds, ret |-> CHOOSE i \in old : TRUE]
        ELSE [datas |-> Append(ds, [name |-> name, linkage |-> linkage, defined |-> FALSE]),
              ret |-> Len(ds) + 1]

\* Module::define_data(id, dcx).unwrap(): defining a data object twice is an
\* error, which the unwrap turns into a panic
define_data(ds, id, dcx) ==
    IF ds[id].defined
    THEN [datas |-> ds, panic |-> TRUE]
    ELSE [datas |-> [ds EXCEPT ![id] =
                        [name |-> @.name, linkage |-> @.linkage, defined |-> TRUE,
                         bytes |-> dcx.bytes,
                         function_decls |-> dcx.function_decls,
                         function_relocs |-> dcx.function_relocs,
                         data_decls |-> dcx.data_decls,
                         data_relocs |-> dcx.data_relocs]],
          panic |-> FALSE]

\* the module declares an anonymous data object and defines it as data
DefineData(data, op, a) ==
    /\ LET d == declare_anonymous_data(datas)
       IN  datas' = define_data(d.datas, d.ret, data).datas
    /\ last' = [op |-> op, a |-> a, ret |-> Len(datas) + 1, pre |-> Pre]
    /\ UNCHANGED <<funcs, vars, blocks, block_id, panicked, finished, nops, target, mcx, fx, anon_count, host, pkg, bb, vm>>

AllocVwt ==
    /\ ~panicked
    /\ Len(datas) < MaxDatas
    /\ \E vwt \in Vwts : DefineData(alloc_vwt(target, vwt), "alloc_vwt", <<vwt>>)

\* MiddleCtx::new on an object module built for any of the targets
InitBackend ==
    /\ funcs = <<>>
    /\ vars = <<>>
    /\ blocks = <<>>
    /\ block_id = ENTRY
    /\ panicked = FALSE
    /\ finished = FALSE
    /\ last = NoOp
    /\ nops = 0
    /\ target \in Targets
    /\ datas = <<>>
    /\ mcx = NewMiddleCtx
    /\ fx = NoFnCtx
    /\ anon_count = 0
    /\ host = "Little"
    /\ pkg = NewPackage
    /\ bb = NoBodyBuilder
    /\ vm = NoVM

NextVwt == AllocVwt

SpecVwt == InitBackend /\ [][NextVwt]_vars_all

\* C10: the data alloc_vwt defines is exactly 6 * ptr_size bytes long and
\* carries exactly three function-address relocations, at byte offsets
\* 3 * ptr_size, 4 * ptr_size and 5 * ptr_size, to copy_fn, move_fn and drop_fn
C10_VwtShape ==
    last.op = "alloc_vwt" =>
      LET data == datas[last.ret]
          vwt == last.a[1]
          p == target.ptr_size
          to(k) == data.function_decls[data.function_relocs[k].func]
      IN  /\ Len(data.bytes) = 6 * p
          /\ Len(data.function_relocs) = 3
          /\ data.function_relocs[1].offset = 3 * p /\ to(1) = vwt.copy_fn
          /\ data.function_relocs[2].offset = 4 * p /\ to(2) = vwt.move_fn
          /\ data.function_relocs[3].offset = 5 * p /\ to(3) = vwt.drop_fn
          /\ data.data_relocs = <<>>

\* C10 witness: a table was defined for a little-endian target with 8-byte
\* pointers, with three different functions
C10_Witness ==
    /\ last.op = "alloc_vwt"
    /\ target = [ptr_size |-> 8, endianness |-> "Little"]
    /\ last.a[1].copy_fn = 1 /\ last.a[1].move_fn = 2 /\ last.a[1].drop_fn = 3
    /\ Len(datas) = last.ret

\* C10 witness: a table was defined for a big-endian target with 4-byte pointers
C10_WitnessBig4 ==
    /\ last.op = "alloc_vwt"
    /\ target = [ptr_size |-> 4, endianness |-> "Big"]
    /\ Len(datas) = last.ret

\* the value v as one pointer-width integer in the byte order of target tgt
ptr_width_int(tgt, v) ==
    IF tgt.endianness = "Big"
    THEN SubSeq(to_be_bytes(v), 9 - tgt.ptr_size, 8)
    ELSE SubSeq(to_le_bytes(v), 1, tgt.ptr_size)

\* the k-th pointer-sized slot of a blob, bytes [k * p, (k + 1) * p)
slot(bytes, k, p) == SubSeq(bytes, k * p + 1, (k + 1) * p)

\* C11: the blob alloc_vwt defines holds size in slot 0, align in slot 1 and
\* stride in slot 2, each as one pointer-width integer in target byte order,
\* and one write_u64 call appends exactly one such integer
C11_VwtIntFields ==
    last.op = "alloc_vwt" =>
      LET data == datas[last.ret]
          vwt == last.a[1]
          p == target.ptr_size
      IN  /\ slot(data.bytes, 0, p) = ptr_width_int(target, vwt.size)
          /\ slot(data.bytes, 1, p) = ptr_width_int(target, vwt.align)
          /\ slot(data.bytes, 2, p) = ptr_width_int(target, vwt.stride)
          /\ write_u64(target, <<>>, vwt.size) = ptr_width_int(target, vwt.size)

-----------------------------------------------------------------------------
(* The trivial runtime helpers (backend-clif/src/middle.rs, 84-95, 188-235) *)

\* Module::declare_function(name, linkage, sig) for a signature of nparams
\* pointer-sized parameters: a new name gets the next FuncId, a name declared
\* before with the same signature gets its old FuncId, and a name declared
\* before with another signature is an error, which the callers unwrap
declare_function(m, name, linkage, nparams) ==
    LET fs == m.functions
        logged == [m EXCEPT !.declare_calls = Append(@, name)]
        old == {i \in 1..Len(fs) : fs[i].name = name}
    IN  IF old = {}
        THEN [m |-> [logged EXCEPT !.functions =
                        Append(@, [name |-> name, linkage |-> linkage, nparams |-> nparams])],
              ret |-> Len(fs) + 1, panic |-> FALSE]
        ELSE LET i == CHOOSE j \in old : TRUE
             IN  IF fs[i].nparams = nparams
                 THEN [m |-> logged, ret |-> i, panic |-> FALSE]
                 ELSE [m |-> logged, ret |-> 0, panic |-> TRUE]

\* MiddleCtx::import_fn
import_fn(m, name, nparams) == declare_function(m, name, "Import", nparams)

\* a helper whose cell is ignored: the function is declared on every call
get_or_init_always(m, cell, nparams) ==
    LET d == declare_function(m, cell, "Import", nparams)
    IN  [d EXCEPT !.m[cell] = d.ret]

\* OnceCell::get_or_init with the closure the four helpers pass to it: the
\* function named like the cell is declared, with nparams parameters, only
\* when the cell is empty
get_or_init(m, cell, nparams) ==
    IF m[cell] # 0
    THEN [m |-> m, ret |-> m[cell], panic |-> FALSE]
    ELSE LET d == declare_function(m, cell, "Import", nparams)
         IN  IF d.panic THEN d ELSE [d EXCEPT !.m[cell] = d.ret]

copy_trivial(m) == get_or_init(m, "copy_trivial", 3)

move_trivial(m) == get_or_init(m, "move_trivial", 3)

copy_move_nop(m) == get_or_init(m, "copy_move_nop", 3)

drop_nop(m) == get_or_init(m, "drop_nop", 2)

\* the MiddleCtx becomes c.m; op, a describe the call
CommitCtx(c, op, a) ==
    /\ mcx' = c.m
    /\ panicked' = c.panic
    /\ last' = [op |-> op, a |-> a, ret |-> c.ret, pre |-> mcx]
    /\ nops' = nops + 1
    /\ UNCHANGED <<funcs, vars, blocks, block_id, finished, target, datas, fx, anon_count, host, pkg, bb, vm>>

ImportFn ==
    /\ Running
    /\ \E name \in {"f", "g"}, nparams \in {1, 3} :
         CommitCtx(import_fn(mcx, name, nparams), "import_fn", <<name, nparams>>)

CopyTrivial == Running /\ CommitCtx(copy_trivial(mcx), "copy_trivial", <<>>)

MoveTrivial == Running /\ CommitCtx(move_trivial(mcx), "move_trivial", <<>>)

CopyMoveNop == Running /\ CommitCtx(copy_move_nop(mcx), "copy_move_nop", <<>>)

DropNop == Running /\ CommitCtx(drop_nop(mcx), "drop_nop", <<>>)

NextHelpers == ImportFn \/ CopyTrivial \/ MoveTrivial \/ CopyMoveNop \/ DropNop

SpecHelpers == InitBackend /\ [][NextHelpers]_vars_all

Helpers == {"copy_trivial", "move_trivial", "copy_move_nop", "drop_nop"}

\* how many times declare_function was called for name
DeclareCalls(m, name) ==
    Cardinality({i \in 1..Len(m.declare_calls) : m.declare_calls[i] = name})

\* C12: each trivial helper is declared in the module at most once; a call
\* returns the FuncId held in the helper's cell, which is the FuncId every
\* earlier call returned, and declares nothing when the cell was set; the
\* declaration is an import of 2 pointer-sized parameters for drop_nop and
\* of 3 for the other three
C12_HelperMemo ==
    /\ \A h \in Helpers : DeclareCalls(mcx, h) <= 1
    /\ \A h \in Helpers : DeclareCalls(mcx, h) = 0 <=> mcx[h] = 0
    /\ last.op \in Helpers =>
         LET h == last.op
         IN  /\ ~panicked
             /\ last.ret = mcx[h]
             /\ last.pre[h] # 0 => last.ret = last.pre[h] /\ mcx = last.pre
             /\ \A g \in Helpers \ {h} : mcx[g] = last.pre[g] /\ (mcx[g] # 0 => mcx[g] # last.ret)
             /\ mcx.functions[last.ret] =
                  [name |-> h, linkage |-> "Import",
                   nparams |-> IF h = "drop_nop" THEN 2 ELSE 3]

\* C12 witness: copy_trivial is called again after it, another helper and an
\* unrelated import were declared
C12_Witness ==
    /\ last.op = "copy_trivial"
    /\ last.pre.copy_trivial # 0
    /\ mcx.drop_nop # 0
    /\ Len(mcx.functions) = 3

-----------------------------------------------------------------------------
(* Lowering one function: FnCtx (backend-clif/src/middle.rs, 237-301) *)

\* the FnCtx that mk_fn hands to its closure: the entry block's parameters
\* are the values 1..nparams, nothing is emitted and the caches are empty
mk_fn_ctx(nparams) ==
    [params |-> [i \in 1..nparams |-> i], insts |-> <<>>, values |-> nparams,
     info_cache |-> <<>>, load_cache |-> <<>>]

\* FnCtx::ptr_size
ptr_size(tgt) == tgt.ptr_size

\* FnCtx::load: a hit of load_cache returns the cached value and emits
\* nothing; otherwise a load is emitted and its result is cached
fn_load(f, tgt, ptr, offset) ==
    IF <<ptr, offset>> \in DOMAIN f.load_cache
    THEN [fx |-> f, ret |-> f.load_cache[<<ptr, offset>>], panic |-> FALSE]
    ELSE LET value == f.values + 1
         IN  [fx |-> [f EXCEPT !.values = value,
                               !.insts = Append(@, [op |-> "load", ret |-> value,
                                                    ptr |-> ptr, offset |-> offset]),
                               !.load_cache = (<<ptr, offset>> :> value) @@ @],
              ret |-> value, panic |-> FALSE]

\* FnCtx::store: a store is emitted; the caches are left as they are
fn_store(f, tgt, ptr, offset, value) ==
    [fx |-> [f EXCEPT !.insts = Append(@, [op |-> "store", value |-> value,
                                          ptr |-> ptr, offset |-> offset])],
     ret |-> <<>>, panic |-> FALSE]

\* FnCtx::type_info: a hit of info_cache on ty returns the cached value;
\* otherwise a type variable is loaded off info and cached, and any other
\* type reaches todo!()
type_info(f, tgt, ty, info) ==
    IF ty \in DOMAIN f.info_cache
    THEN [fx |-> f, ret |-> f.info_cache[ty], panic |-> FALSE]
    ELSE IF ty.kind = "Var"
         THEN LET l == fn_load(f, tgt, info, (2 + ty.index) * ptr_size(tgt))
              IN  [fx |-> [l.fx EXCEPT !.info_cache = (ty :> l.ret) @@ @],
                   ret |-> l.ret, panic |-> FALSE]
         ELSE [fx |-> f, ret |-> 0, panic |-> TRUE]

\* the FnCtx becomes c.fx; op, a describe the call
CommitFn(c, op, a) ==
    /\ fx' = c.fx
    /\ panicked' = c.panic
    /\ last' = [op |-> op, a |-> a, ret |-> c.ret, pre |-> fx]
    /\ nops' = nops + 1
    /\ UNCHANGED <<funcs, vars, blocks, block_id, finished, target, datas, mcx, anon_count, host, pkg, bb, vm>>

\* inside the closure of mk_fn
Lowering == ~panicked /\ nops < MaxFnOps

Values == 1..fx.values

\* the offsets tried: the first word and the first child type-info slot
Offsets == {0, 2 * ptr_size(target)}

FnLoad ==
    /\ Lowering
    /\ \E ptr \in Values, offset \in Offsets :
         CommitFn(fn_load(fx, target, ptr, offset), "load", <<ptr, offset>>)

FnStore ==
    /\ Lowering
    /\ \E ptr \in Values, offset \in Offsets :
         CommitFn(fn_store(fx, target, ptr, offset, fx.params[1]), "store",
                  <<ptr, offset, fx.params[1]>>)

TypeInfo ==
    /\ Lowering
    /\ \E ty \in {TVar(0), TVar(1), I32}, info \in Values :
         CommitFn(type_info(fx, target, ty, info), "type_info", <<ty, info>>)

\* mk_fn has built the FnCtx of a function of two parameters and runs its closure
InitFn ==
    /\ funcs = <<>>
    /\ vars = <<>>
    /\ blocks = <<>>
    /\ block_id = ENTRY
    /\ panicked = FALSE
    /\ finished = FALSE
    /\ last = NoOp
    /\ nops = 0
    /\ target \in Targets
    /\ datas = <<>>
    /\ mcx = NewMiddleCtx
    /\ fx = mk_fn_ctx(2)
    /\ anon_count = 0
    /\ host = "Little"
    /\ pkg = NewPackage
    /\ bb = NoBodyBuilder
    /\ vm = NoVM

NextFn == FnLoad \/ FnStore \/ TypeInfo

SpecFn == InitFn /\ [][NextFn]_vars_all

\* the position in insts of the instruction that defines value v, 0 for a
\* block parameter
DefinedAt(f, v) ==
    IF \E i \in 1..Len(f.insts) : f.insts[i].op = "load" /\ f.insts[i].ret = v
    THEN CHOOSE i \in 1..Len(f.insts) : f.insts[i].op = "load" /\ f.insts[i].ret = v
    ELSE 0

\* a store to (ptr, offset) was emitted after position i
StoredAfter(f, i, ptr, offset) ==
    \E j \in (i + 1)..Len(f.insts) :
        /\ f.insts[j].op = "store"
        /\ f.insts[j].ptr = ptr
        /\ f.insts[j].offset = offset

\* C13: load(ptr, off) returns what a load emitted now would read: its result
\* is the result of a load of (ptr, off) with no later store to (ptr, off);
\* and after store(ptr, off, v) the load cache holds no entry for (ptr, off)
C13_LoadCacheSound ==
    /\ last.op = "load" =>
         LET i == DefinedAt(fx, last.ret)
         IN  /\ i > 0
             /\ fx.insts[i].ptr = last.a[1] /\ fx.insts[i].offset = last.a[2]
             /\ ~StoredAfter(fx, i, last.a[1], last.a[2])
    /\ last.op = "store" => <<last.a[1], last.a[2]>> \notin DOMAIN fx.load_cache

\* a load of (ptr, offset) is among the instructions insts
Loads(insts, ptr, offset) ==
    \E i \in 1..Len(insts) :
        insts[i].op = "load" /\ insts[i].ptr = ptr /\ insts[i].offset = offset

\* C20: for a type variable of index i, type_info(ty, info) returns the result
\* of a pointer-width load at offset (2 + i) * ptr_size off the info value of
\* that same call, and emits no load when such a load was emitted before
C20_TypeInfo ==
    (last.op = "type_info" /\ last.a[1].kind = "Var") =>
      LET info == last.a[2]
          offset == (2 + last.a[1].index) * ptr_size(target)
          i == DefinedAt(fx, last.ret)
      IN  /\ ~panicked
          /\ i > 0
          /\ fx.insts[i].ptr = info
          /\ fx.insts[i].offset = offset
          /\ Loads(last.pre.insts, info, offset) => fx.insts = last.pre.insts

-----------------------------------------------------------------------------
(* Type-info records (backend-clif/src/middle.rs, 121-141) *)

\* Module::declare_data_in_data: the data object is imported into the data
\* context and named by its index there
declare_data_in_data(dcx, data) ==
    [dcx |-> [dcx EXCEPT !.data_decls = Append(@, data)],
     ret |-> Len(dcx.data_decls) + 1]

\* DataContext::write_data_addr
write_data_addr(dcx, offset, data, addend) ==
    [dcx EXCEPT !.data_relocs =
        Append(@, [offset |-> offset, data |-> data, addend |-> addend])]

\* MiddleCtx::alloc_info on the module's data objects ds
alloc_info(ds, tgt, name, export, vwt, flags) ==
    LET id == IF name = ""
              THEN declare_anonymous_data(ds)
              ELSE declare_data(ds, name, IF export THEN "Export" ELSE "Local")
        bytes == [i \in 1..tgt.ptr_size |-> 0]
        v == declare_data_in_data(NewDataContext, vwt)
        written == write_u64(tgt, bytes, flags)
        dcx == define(write_data_addr(v.dcx, 0, v.ret, 0), written)
        d == define_data(id.datas, id.ret, dcx)
    IN  [datas |-> d.datas, ret |-> id.ret, panic |-> d.panic]

\* the flags words tried
InfoFlags == {0, 1, 258}

AllocInfo ==
    /\ ~panicked
    /\ Len(datas) < MaxDatas
    /\ \E name \in {"", "info"}, export \in BOOLEAN, vwt \in 1..Len(datas),
          flags \in InfoFlags :
         LET c == alloc_info(datas, target, name, export, vwt, flags)
         IN  /\ datas' = c.datas
             /\ panicked' = c.panic
             /\ last' = [op |-> "alloc_info", a |-> <<name, export, vwt, flags>>,
                         ret |-> c.ret, pre |-> datas]
             /\ UNCHANGED <<funcs, vars, blocks, block_id, finished, nops, target,
                            mcx, fx, anon_count, host, pkg, bb, vm>>

NextInfo == AllocVwt \/ AllocInfo

SpecInfo == InitBackend /\ [][NextInfo]_vars_all

\* C19: the record alloc_info defines holds the flags word as one
\* pointer-width integer in target byte order at byte offset 0, and carries
\* one data-address relocation, at byte offset 0, to the given table
C19_InfoLayout ==
    (last.op = "alloc_info" /\ ~panicked) =>
      LET data == datas[last.ret]
          p == target.ptr_size
      IN  /\ slot(data.bytes, 0, p) = ptr_width_int(target, last.a[4])
          /\ Len(data.data_relocs) = 1
          /\ data.data_relocs[1].offset = 0
          /\ data.data_relocs[1].addend = 0
          /\ data.data_decls[data.data_relocs[1].data] = last.a[3]

-----------------------------------------------------------------------------
(* Layouts (ir::layout), as section 4.A of the specification computes them *)

RoundUp(n, a) == ((n + a - 1) \div a) * a

MaxOf(S) == IF S = {} THEN 1 ELSE CHOOSE x \in S : \A y \in S : y <= x

\* the layout of a primitive of the given size, aligned to its size
prim_layout(size) ==
    [size |-> size, align |-> size,
     fields |-> [shape |-> "Primitive"], field_layouts |-> <<>>,
     variants |-> [kind |-> "Single", index |-> 0], pointee |-> <<>>]

\* the layout of a pointer to something of layout to
ptr_layout(tgt, to) == [prim_layout(tgt.ptr_size) EXCEPT !.pointee = <<to>>]

\* fields placed in order from cursor on, each rounded up to its alignment
RECURSIVE field_offsets(_, _, _)
field_offsets(ls, k, cursor) ==
    IF k > Len(ls) THEN <<>>
    ELSE LET at == RoundUp(cursor, ls[k].align)
         IN  <<at>> \o field_offsets(ls, k + 1, at + ls[k].size)

\* where the last of the fields ends
fields_end(ls, offsets, start) ==
    IF ls = <<>> THEN start ELSE offsets[Len(ls)] + ls[Len(ls)].size

\* the layout of a tuple: Arbitrary offsets, size rounded up to the alignment
tuple_layout(ls) ==
    LET offsets == field_offsets(ls, 1, 0)
        align == MaxOf({ls[k].align : k \in 1..Len(ls)})
    IN  [size |-> RoundUp(fields_end(ls, offsets, 0), align), align |-> align,
         fields |-> [shape |-> "Arbitrary", offsets |-> offsets],
         field_layouts |-> ls,
         variants |-> [kind |-> "Single", index |-> 0], pointee |-> <<>>]

\* the layout of one variant of a tagged union whose tag has layout tag:
\* the payload fields are placed after the tag
variant_layout(tag, ls, align, index) ==
    LET offsets == field_offsets(ls, 1, tag.size)
    IN  [size |-> RoundUp(fields_end(ls, offsets, tag.size), align), align |-> align,
         fields |-> [shape |-> "Arbitrary", offsets |-> offsets],
         field_layouts |-> ls,
         variants |-> [kind |-> "Single", index |-> index], pointee |-> <<>>]

\* the layout of a tagged union with the given tag, payloads (one list of
\* field layouts per variant), tag encoding and fields shape of its own
enum_layout(tag, payloads, tag_encoding, fields) ==
    LET align == MaxOf({tag.align} \cup
                       UNION {{payloads[v][k].align : k \in 1..Len(payloads[v])} :
                              v \in 1..Len(payloads)})
        vs == [v \in 1..Len(payloads) |-> variant_layout(tag, payloads[v], align, v - 1)]
    IN  [size |-> MaxOf({vs[v].size : v \in 1..Len(vs)}), align |-> align,
         fields |-> fields, field_layouts |-> <<tag>>,
         variants |-> [kind |-> "Multiple", tag_field |-> 0,
                       tag_encoding |-> tag_encoding, variants |-> vs],
         pointee |-> <<>>]

\* TyLayout::field(j, target), j counted from 0
field(layout, j) == layout.field_layouts[j + 1]

\* TyLayout::variant(idx), idx counted from 0
variant(layout, idx) == layout.variants.variants[idx + 1]

\* TyLayout::pointee(target)
pointee(layout) == layout.pointee[1]

-----------------------------------------------------------------------------
(* The constant materializer (codegen_cranelift/src/const_.rs) *)

\* ir::Const
CUndefined == [k |-> "Undefined"]
CScalar(s) == [k |-> "Scalar", s |-> s]
CAddr(id) == [k |-> "Addr", id |-> id]
CPtr(to) == [k |-> "Ptr", to |-> to]
CTuple(cs) == [k |-> "Tuple", cs |-> cs]
CVariant(idx, cs) == [k |-> "Variant", idx |-> idx, cs |-> cs]

\* mcx.func_ids: the function 1 of the module is declared as FuncId 1
func_ids == (1 :> 1)

zeros(n) == [i \in 1..n |-> 0]

\* a Vec<u8> with no capacity reserved
vec_new(n) == [v |-> <<>>, cap |-> 0]

\* Vec::with_capacity(n): an empty vector whose capacity is n
vec_with_capacity(n) == [v |-> <<>>, cap |-> n]

\* the capacity after room for need bytes was reserved: a vector that is too
\* small at least doubles, and never grows to less than 8 bytes
reserve(cap, need) == IF need <= cap THEN cap ELSE MaxOf({2 * cap, need, 8})

\* Vec::extend
vec_extend(b, xs) == [v |-> b.v \o xs, cap |-> reserve(b.cap, Len(b.v) + Len(xs))]

\* Vec::resize(n, 0)
vec_resize(b, n) ==
    IF n <= Len(b.v) THEN [b EXCEPT !.v = SubSeq(@, 1, n)]
    ELSE vec_extend(b, zeros(n - Len(b.v)))

\* u128::to_ne_bytes on a host of byte order h: 16 bytes; the values tried
\* are below 2^31, so all but four of them are zero
to_ne_bytes(h, s) ==
    IF h = "Little"
    THEN [i \in 1..16 |-> IF i <= 4 THEN (s \div (256 ^ (i - 1))) % 256 ELSE 0]
    ELSE [i \in 1..16 |-> IF i >= 13 THEN (s \div (256 ^ (16 - i))) % 256 ELSE 0]

\* the materializer panicked
Abort(cx, dcx, bytes) == [cx |-> [cx EXCEPT !.panic = TRUE], dcx |-> dcx, bytes |-> bytes]

RECURSIVE rec(_, _, _, _, _)
RECURSIVE tuple_fields(_, _, _, _, _, _, _)
RECURSIVE variant_fields(_, _, _, _, _, _, _, _)
RECURSIVE alloc_const(_, _, _, _)

\* the loop of the Tuple case from field j (counted from 0) on, i being the
\* offset at which the field before ended
tuple_fields(cx, dcx, cs, layout, j, i, bytes) ==
    LET offsets == layout.fields.offsets
    IN  IF cx.panic \/ j >= Len(cs) \/ j >= Len(offsets)
        THEN [cx |-> cx, dcx |-> dcx, bytes |-> bytes]
        ELSE LET offset == offsets[j + 1]
             IN  IF offset < i \/ j >= Len(layout.field_layouts)
                 THEN Abort(cx, dcx, bytes)
                 ELSE LET padded == vec_extend(bytes, zeros(offset - i))
                          fld == field(layout, j)
                          r == rec(cx, dcx, cs[j + 1], fld, padded)
                      IN  tuple_fields(r.cx, r.dcx, cs, layout, j + 1,
                                       offset + fld.size, r.bytes)

\* the loop of the Variant case from payload field j (counted from 0) on:
\* the offsets are those of the union's own fields shape after the first,
\* the field layouts those of the selected variant
variant_fields(cx, dcx, cs, offsets, var, j, i, bytes) ==
    IF cx.panic \/ j >= Len(cs) \/ j >= Len(offsets) - 1
    THEN [cx |-> cx, dcx |-> dcx, bytes |-> bytes]
    ELSE LET offset == offsets[j + 2]
         IN  IF offset < i \/ j >= Len(var.field_layouts)
             THEN Abort(cx, dcx, bytes)
             ELSE LET padded == vec_extend(bytes, zeros(offset - i))
                      fld == field(var, j)
                      r == rec(cx, dcx, cs[j + 1], fld, padded)
                  IN  variant_fields(r.cx, r.dcx, cs, offsets, var, j + 1,
                                     offset + fld.size, r.bytes)

\* alloc_const::rec: the constant c of layout layout is appended to bytes
rec(cx, dcx, c, layout, bytes) ==
    LET size == layout.size
        same == [cx |-> cx, dcx |-> dcx, bytes |-> bytes]
    IN  IF cx.panic THEN same
        ELSE CASE c.k = "Undefined" ->
                    [same EXCEPT !.bytes = vec_resize(bytes, Len(bytes.v) + size)]
               [] c.k = "Scalar" ->
                    IF size > 16 THEN Abort(cx, dcx, bytes)
                    ELSE [same EXCEPT !.bytes =
                            vec_extend(bytes, SubSeq(to_ne_bytes(cx.host, c.s), 1, size))]
               [] c.k = "Addr" ->
                    IF c.id \in DOMAIN func_ids
                    THEN LET f == declare_func_in_data(dcx, func_ids[c.id])
                         IN  [cx |-> cx,
                              dcx |-> write_function_addr(f.dcx, Len(bytes.v), f.ret),
                              bytes |-> vec_extend(bytes, zeros(size))]
                    ELSE Abort(cx, dcx, bytes)
               [] c.k = "Ptr" ->
                    LET a == alloc_const(cx, c.to, pointee(layout), 0)
                        g == declare_data_in_data(dcx, a.ret)
                    IN  IF a.cx.panic THEN [same EXCEPT !.cx = a.cx]
                        ELSE [cx |-> a.cx,
                              dcx |-> write_data_addr(g.dcx, Len(bytes.v), g.ret, 0),
                              bytes |-> vec_extend(bytes, zeros(size))]
               [] c.k = "Tuple" ->
                    IF layout.fields.shape = "Arbitrary"
                    THEN tuple_fields(cx, dcx, c.cs, layout, 0, 0, bytes)
                    ELSE Abort(cx, dcx, bytes)
               [] c.k = "Variant" ->
                    IF layout.variants.kind # "Multiple" THEN Abort(cx, dcx, bytes)
                    ELSE IF layout.fields.shape # "Arbitrary" THEN same
                    ELSE IF layout.variants.tag_encoding # "Direct" THEN Abort(cx, dcx, bytes)
                    ELSE IF layout.variants.tag_field # 0 THEN Abort(cx, dcx, bytes)
                    ELSE LET tag_layout == field(layout, 0)
                             var == variant(layout, c.idx)
                             t == rec(cx, dcx, CScalar(c.idx), tag_layout, bytes)
                         IN  variant_fields(t.cx, t.dcx, c.cs, layout.fields.offsets,
                                            var, 0, tag_layout.size, t.bytes)

\* alloc_const without the increment of anon_count
alloc_const_same_name(cx, c, layout, data_id) ==
    LET d == IF data_id = 0
             THEN declare_data(cx.datas, "__const_" \o ToString(cx.anon_count), "Local")
             ELSE [datas |-> cx.datas, ret |-> data_id]
        cx1 == [cx EXCEPT !.datas = d.datas]
        r == rec(cx1, NewDataContext, c, layout, vec_with_capacity(layout.size))
        bytes == vec_resize(r.bytes, r.bytes.cap)
        def == define_data(r.cx.datas, d.ret, define(r.dcx, bytes.v))
    IN  IF r.cx.panic
        THEN [cx |-> r.cx, ret |-> d.ret, written |-> Len(r.bytes.v)]
        ELSE [cx |-> [r.cx EXCEPT !.datas = def.datas, !.panic = def.panic],
              ret |-> d.ret, written |-> Len(r.bytes.v)]

\* ConstMethods::alloc_const; data_id 0 is None.  written is the length of
\* the buffer when rec returned, before the final resize
alloc_const(cx, c, layout, data_id) ==
    LET d == IF data_id = 0
             THEN declare_data(cx.datas, "__const_" \o ToString(cx.anon_count), "Local")
             ELSE [datas |-> cx.datas, ret |-> data_id]
        cx1 == [cx EXCEPT !.datas = d.datas,
                          !.anon_count = IF data_id = 0 THEN @ + 1 ELSE @]
        r == rec(cx1, NewDataContext, c, layout, vec_with_capacity(layout.size))
        bytes == vec_resize(r.bytes, r.bytes.cap)
        def == define_data(r.cx.datas, d.ret, define(r.dcx, bytes.v))
    IN  IF r.cx.panic
        THEN [cx |-> r.cx, ret |-> d.ret, written |-> Len(r.bytes.v)]
        ELSE [cx |-> [r.cx EXCEPT !.datas = def.datas, !.panic = def.panic],
              ret |-> d.ret, written |-> Len(r.bytes.v)]

\* the layouts tried
LI8 == prim_layout(1)
LI32 == prim_layout(4)
LI16 == prim_layout(2)
LI128 == prim_layout(16)
LPair == tuple_layout(<<LI32, LI8>>)
LGap == tuple_layout(<<LI8, LI32>>)
LNested == tuple_layout(<<LPair, LI8>>)
LUnit == tuple_layout(<<>>)
LArray == [LPair EXCEPT !.fields = [shape |-> "Array", stride |-> 4, count |-> 2]]

\* Option<i32> = None | Some(i32) with a 4-byte tag
LOption(tag_encoding, fields) == enum_layout(LI32, <<<<>>, <<LI32>>>>, tag_encoding, fields)

\* Either = A(i8, i8) | B(i32, i32) with a 4-byte tag and Direct encoding
LEither(fields) ==
    enum_layout(LI32, <<<<LI8, LI8>>, <<LI32, LI32>>>>, "Direct", fields)

\* the fields shapes tried for Option<i32> itself: the tag alone, the tag
\* and the payload of the largest variant, and a primitive
UnionFields ==
    {[shape |-> "Arbitrary", offsets |-> <<0>>],
     [shape |-> "Arbitrary", offsets |-> <<0, 4>>],
     [shape |-> "Primitive"]}

\* the fields shapes tried for Either itself: the tag alone, and the tag
\* with the payload offsets of A and of B
EitherFields ==
    {[shape |-> "Arbitrary", offsets |-> <<0>>],
     [shape |-> "Arbitrary", offsets |-> <<0, 4, 5>>],
     [shape |-> "Arbitrary", offsets |-> <<0, 4, 8>>]}

\* the constants tried, each with the layout of its type
ConstInputs(tgt) ==
    {[c |-> CUndefined, layout |-> LI32],
     [c |-> CUndefined, layout |-> LPair],
     [c |-> CScalar(7), layout |-> LI32],
     [c |-> CScalar(258), layout |-> LI8],
     [c |-> CScalar(258), layout |-> LI32],
     [c |-> CScalar(258), layout |-> LI16],
     [c |-> CScalar(258), layout |-> LI128],
     [c |-> CAddr(1), layout |-> prim_layout(tgt.ptr_size)],
     [c |-> CAddr(2), layout |-> prim_layout(tgt.ptr_size)],
     [c |-> CPtr(CScalar(7)), layout |-> ptr_layout(tgt, LI32)],
     [c |-> CPtr(CTuple(<<CScalar(7), CScalar(1)>>)), layout |-> ptr_layout(tgt, LPair)],
     [c |-> CPtr(CPtr(CScalar(7))), layout |-> ptr_layout(tgt, ptr_layout(tgt, LI32))],
     [c |-> CTuple(<<CScalar(7), CPtr(CScalar(1))>>),
      layout |-> tuple_layout(<<LI32, ptr_layout(tgt, LI8)>>)],
     [c |-> CTuple(<<>>), layout |-> LUnit],
     [c |-> CTuple(<<CScalar(7), CScalar(1)>>), layout |-> LPair],
     [c |-> CTuple(<<CScalar(1), CScalar(7)>>), layout |-> LGap],
     [c |-> CTuple(<<CTuple(<<CScalar(7), CScalar(1)>>), CScalar(2)>>), layout |-> LNested],
     [c |-> CTuple(<<CScalar(7), CScalar(1)>>), layout |-> LArray],
     [c |-> CVariant(1, <<CScalar(7)>>), layout |-> LPair]}
    \cup {[c |-> c, layout |-> LOption(e, f)] :
            c \in {CVariant(0, <<>>), CVariant(1, <<CScalar(7)>>)},
            e \in {"Direct", "Niche"}, f \in UnionFields}
    \cup {[c |-> c, layout |-> LEither(f)] :
            c \in {CVariant(0, <<CScalar(1), CScalar(2)>>),
                   CVariant(1, <<CScalar(7), CScalar(9)>>)},
            f \in EitherFields}

AllocConst ==
    /\ ~panicked
    /\ Len(datas) < MaxDatas
    /\ \E in \in ConstInputs(target) :
         LET r == alloc_const([datas |-> datas, anon_count |-> anon_count,
                               panic |-> FALSE, host |-> host],
                              in.c, in.layout, 0)
         IN  /\ datas' = r.cx.datas
             /\ anon_count' = r.cx.anon_count
             /\ panicked' = r.cx.panic
             /\ last' = [op |-> "alloc_const", a |-> <<in.c, in.layout, 0>>,
                         ret |-> r.ret, written |-> r.written,
                         pre |-> [datas |-> datas, anon_count |-> anon_count]]
             /\ UNCHANGED <<funcs, vars, blocks, block_id, finished, nops, target,
                            mcx, fx, host, pkg, bb, vm>>

\* a ClifBackend with no anonymous constant yet, on either kind of host
InitConst ==
    /\ funcs = <<>>
    /\ vars = <<>>
    /\ blocks = <<>>
    /\ block_id = ENTRY
    /\ panicked = FALSE
    /\ finished = FALSE
    /\ last = NoOp
    /\ nops = 0
    /\ target \in Targets
    /\ datas = <<>>
    /\ mcx = NewMiddleCtx
    /\ fx = NoFnCtx
    /\ anon_count = 0
    /\ host \in {"Little", "Big"}
    /\ pkg = NewPackage
    /\ bb = NoBodyBuilder
    /\ vm = NoVM

NextConst == AllocConst

SpecConst == InitConst /\ [][NextConst]_vars_all

\* what the Scalar case writes for the value s in a field of size bytes
scalar_bytes(s, size) == SubSeq(to_ne_bytes(host, s), 1, size)

\* alloc_const returned after materialising a constant of kind k
Materialised(k) == last.op = "alloc_const" /\ ~panicked /\ last.a[1].k = k

\* the bytes [at, at + size) of the data defined by the last call
BytesAt(at, size) == SubSeq(datas[last.ret].bytes, at + 1, at + size)

\* C14: for a tuple constant materialised against Arbitrary { offsets }, the
\* bytes of every field i begin at offsets[i] from where the tuple began
\* (a scalar field is found there), and the bytes of the tuple that belong
\* to no field are zero
C14_TupleFields ==
    (Materialised("Tuple") /\ last.a[2].fields.shape = "Arbitrary") =>
      LET cs == last.a[1].cs
          layout == last.a[2]
          offsets == layout.fields.offsets
          covered == UNION {(offsets[j] + 1)..(offsets[j] + field(layout, j - 1).size) :
                            j \in 1..Len(cs)}
      IN  /\ \A j \in 1..Len(cs) :
                cs[j].k = "Scalar" =>
                  BytesAt(offsets[j], field(layout, j - 1).size)
                    = scalar_bytes(cs[j].s, field(layout, j - 1).size)
          /\ \A i \in (1..layout.size) \ covered : datas[last.ret].bytes[i] = 0

\* C15: the data alloc_const defines for a constant of layout L is exactly
\* L.size bytes long and is zero after the bytes rec wrote; the data defined
\* for the target of a pointer constant is as long as the pointee's layout
C15_ConstSize ==
    (last.op = "alloc_const" /\ ~panicked) =>
      LET data == datas[last.ret]
          layout == last.a[2]
      IN  /\ data.defined
          /\ Len(data.bytes) = layout.size
          /\ \A i \in (last.written + 1)..Len(data.bytes) : data.bytes[i] = 0
          /\ last.a[1].k = "Ptr" =>
                /\ datas[last.ret + 1].defined
                /\ Len(datas[last.ret + 1].bytes) = pointee(layout).size

\* C15 witness: a tuple whose last field ends before the tuple's size was
\* materialised, so the final resize had bytes to add
C15_Witness ==
    /\ Materialised("Tuple")
    /\ last.written = 5
    /\ last.a[2].size = 8
    /\ datas[last.ret].bytes = <<7, 0, 0, 0, 1, 0, 0, 0>>

\* C15 witness: a pointer constant was materialised, which defines two data
\* objects
C15_WitnessPtr ==
    /\ Materialised("Ptr")
    /\ last.a[1].to.k = "Tuple"
    /\ Len(datas) = last.ret + 1

\* C16: for a Variant constant materialised against a Multiple layout with
\* Direct tag encoding, tag field 0 and an Arbitrary fields shape (the one
\* the Direct arm of rec handles), the tag field holds the scalar idx
\* and every payload constant cs[j] lies at the offset the selected
\* variant's own Arbitrary shape gives it; on a little-endian host Some(7)
\* of Option<i32> is 01 00 00 00 07 00 00 00
C16_DirectVariant ==
    (/\ Materialised("Variant")
     /\ last.a[2].variants.kind = "Multiple"
     /\ last.a[2].variants.tag_encoding = "Direct"
     /\ last.a[2].variants.tag_field = 0
     /\ last.a[2].fields.shape = "Arbitrary") =>
      LET c == last.a[1]
          layout == last.a[2]
          tag_layout == field(layout, 0)
          var == variant(layout, c.idx)
      IN  /\ BytesAt(0, tag_layout.size) = scalar_bytes(c.idx, tag_layout.size)
          /\ \A j \in 1..Len(c.cs) :
                c.cs[j].k = "Scalar" =>
                  BytesAt(var.fields.offsets[j], field(var, j - 1).size)
                    = scalar_bytes(c.cs[j].s, field(var, j - 1).size)
          /\ (host = "Little" /\ c = CVariant(1, <<CScalar(7)>>)) =>
                datas[last.ret].bytes = <<1, 0, 0, 0, 7, 0, 0, 0>>

\* C17: a Variant constant whose layout has Multiple variants with Niche tag
\* encoding is never materialised: alloc_const aborts and the data declared
\* for the constant is left undefined
C17_NicheRejected ==
    (/\ last.op = "alloc_const"
     /\ last.a[1].k = "Variant"
     /\ last.a[2].variants.kind = "Multiple"
     /\ last.a[2].variants.tag_encoding = "Niche") =>
      /\ panicked
      /\ ~datas[last.ret].defined

RECURSIVE from_le_bytes(_)
RECURSIVE from_be_bytes(_)

\* the integer whose little-endian encoding is bs
from_le_bytes(bs) == IF bs = <<>> THEN 0 ELSE bs[1] + 256 * from_le_bytes(Tail(bs))

\* the integer whose big-endian encoding is bs
from_be_bytes(bs) ==
    IF bs = <<>> THEN 0
    ELSE 256 * from_be_bytes(SubSeq(bs, 1, Len(bs) - 1)) + bs[Len(bs)]

\* the integer that bs encodes in the byte order of a host h
from_ne_bytes(h, bs) == IF h = "Little" THEN from_le_bytes(bs) ELSE from_be_bytes(bs)

\* v mod 2^(8 * size) for the values tried, which are below 2^31
truncated(v, size) == IF size >= 4 THEN v ELSE v % (256 ^ size)

\* C21: materialising Scalar(v, T) appends exactly size(T) bytes, and these
\* decode in the host's byte order to v mod 2^(8 * size(T)), on little-endian
\* and on big-endian hosts
C21_ScalarBytes ==
    Materialised("Scalar") =>
      LET v == last.a[1].s
          size == last.a[2].size
      IN  /\ last.written = size
          /\ from_ne_bytes(host, BytesAt(0, size)) = truncated(v, size)

-----------------------------------------------------------------------------
(* Pointer constants and the names of anonymous constants *)

\* the names of the globals a caller declares before it asks for their
\* initialisers
GlobalNames == {"g", "h"}

\* the caller of alloc_const declares the data of a global, to be defined by
\* alloc_const(.., Some(id))
DeclareData ==
    /\ ~panicked
    /\ Len(datas) < MaxDatas
    /\ \E name \in GlobalNames :
         LET d == declare_data(datas, name, "Export")
         IN  /\ d.ret = Len(datas) + 1
             /\ datas' = d.datas
             /\ last' = [op |-> "declare_data", a |-> <<name>>, ret |-> d.ret,
                         written |-> 0,
                         pre |-> [datas |-> datas, anon_count |-> anon_count]]
    /\ UNCHANGED <<funcs, vars, blocks, block_id, panicked, finished, nops, target,
                   mcx, fx, anon_count, host, pkg, bb, vm>>

\* the constants tried where pointers are looked at: scalars, pointers, a
\* pointer to a pointer and tuples with and without a pointer field
PtrInputs(tgt) ==
    {[c |-> CScalar(7), layout |-> LI32],
     [c |-> CPtr(CScalar(7)), layout |-> ptr_layout(tgt, LI32)],
     [c |-> CPtr(CTuple(<<CScalar(7), CScalar(1)>>)), layout |-> ptr_layout(tgt, LPair)],
     [c |-> CPtr(CPtr(CScalar(7))), layout |-> ptr_layout(tgt, ptr_layout(tgt, LI32))],
     [c |-> CTuple(<<CScalar(7), CScalar(1)>>), layout |-> LPair],
     [c |-> CTuple(<<CScalar(7), CPtr(CScalar(1))>>),
      layout |-> tuple_layout(<<LI32, ptr_layout(tgt, LI8)>>)]}

\* alloc_const(c, layout, data_id), data_id being None or Some(id) for a
\* data object declared and not yet defined
AllocPtrConst ==
    /\ ~panicked
    /\ Len(datas) <= MaxDatas
    /\ \E id \in {0} \cup {i \in 1..Len(datas) : ~datas[i].defined},
          in \in PtrInputs(target) :
         LET r == alloc_const([datas |-> datas, anon_count |-> anon_count,
                               panic |-> FALSE, host |-> host],
                              in.c, in.layout, id)
         IN  /\ id = 0 => Len(datas) < MaxDatas
             /\ datas' = r.cx.datas
             /\ anon_count' = r.cx.anon_count
             /\ panicked' = r.cx.panic
             /\ last' = [op |-> "alloc_const", a |-> <<in.c, in.layout, id>>,
                         ret |-> r.ret, written |-> r.written,
                         pre |-> [datas |-> datas, anon_count |-> anon_count]]
    /\ UNCHANGED <<funcs, vars, blocks, block_id, finished, nops, target,
                   mcx, fx, host, pkg, bb, vm>>

NextPtr == AllocPtrConst \/ DeclareData

SpecPtr == InitConst /\ [][NextPtr]_vars_all

\* the name of the n-th anonymous constant
const_name(n) == "__const_" \o ToString(n)

\* the data objects that carry the name of an anonymous constant
AnonymousConsts ==
    {i \in 1..Len(datas) : \E n \in 0..(anon_count - 1) : datas[i].name = const_name(n)}

\* the data a pointer written at offset at of the data defined last refers
\* to: the relocation at that offset names it through the data context
PointedFrom(at) ==
    LET outer == datas[last.ret]
    IN  {outer.data_decls[outer.data_relocs[k].data] :
           k \in {k \in 1..Len(outer.data_relocs) :
                    outer.data_relocs[k].offset = at /\ outer.data_relocs[k].addend = 0}}

\* the pointer constant c of layout layout was materialised at offset at of
\* the data defined last, as the n-th anonymous constant
PtrAt(c, layout, at, n) ==
    /\ BytesAt(at, layout.size) = zeros(layout.size)
    /\ \E inner \in PointedFrom(at) :
         /\ inner # last.ret
         /\ inner > Len(last.pre.datas)
         /\ datas[inner].name = const_name(n)
         /\ \A i \in 1..Len(datas) : datas[i].name = const_name(n) => i = inner
         /\ datas[inner].defined
         /\ Len(datas[inner].bytes) = pointee(layout).size
         /\ c.to.k = "Scalar" =>
               datas[inner].bytes = scalar_bytes(c.to.s, pointee(layout).size)

\* the number alloc_const gives the first anonymous constant it declares
\* below the constant itself
FirstInner == last.pre.anon_count + (IF last.a[3] = 0 THEN 1 ELSE 0)

\* C22: every anonymous constant has a name __const_N of its own, whatever
\* the sequence of alloc_const calls: alloc_const(.., None) declares a data
\* object that was not there before; materialising Ptr(inner) defines inner
\* in a data object declared by that call under such a name, records one
\* data-address relocation to it at the offset of the pointer in the outer
\* buffer (0 when the pointer is the whole constant, the field's offset when
\* it is a field of a tuple of scalars and pointers) and leaves size(T) zero
\* bytes there
C22_PtrConst ==
    /\ Cardinality(AnonymousConsts) = anon_count
    /\ (last.op = "alloc_const" /\ last.a[3] = 0) =>
          /\ last.ret > Len(last.pre.datas)
          /\ datas[last.ret].name = const_name(last.pre.anon_count)
          /\ \A i \in 1..Len(datas) :
                datas[i].name = datas[last.ret].name => i = last.ret
    /\ (last.op = "alloc_const" /\ ~panicked /\ last.a[1].k = "Ptr") =>
          /\ Len(datas[last.ret].data_relocs) = 1
          /\ PtrAt(last.a[1], last.a[2], 0, FirstInner)
    /\ (/\ last.op = "alloc_const" /\ ~panicked /\ last.a[1].k = "Tuple"
        /\ last.a[2].fields.shape = "Arbitrary"
        /\ \A j \in 1..Len(last.a[1].cs) : last.a[1].cs[j].k \in {"Scalar", "Ptr"}) =>
          \A j \in 1..Len(last.a[1].cs) :
             last.a[1].cs[j].k = "Ptr" =>
               PtrAt(last.a[1].cs[j], field(last.a[2], j - 1),
                     last.a[2].fields.offsets[j], FirstInner)

\* C22 witness: a pointer constant was materialised into a global declared
\* before, after an anonymous constant had been materialised, so its target
\* is the second anonymous constant
C22_Witness ==
    /\ last.op = "alloc_const" /\ ~panicked
    /\ last.a[1].k = "Ptr"
    /\ last.a[3] # 0
    /\ last.pre.anon_count = 1
    /\ anon_count = 2
    /\ datas[datas[last.ret].data_decls[1]].name = "__const_1"

\* C22 witness: a pointer that is the second field of a tuple was
\* materialised, its relocation being at the field's offset
C22_WitnessField ==
    /\ last.op = "alloc_const" /\ ~panicked
    /\ last.a[1].k = "Tuple"
    /\ Len(last.a[1].cs) = 2
    /\ last.a[1].cs[2].k = "Ptr"
    /\ datas[last.ret].data_relocs[1].offset = last.a[2].fields.offsets[2]
    /\ last.a[2].fields.offsets[2] > 0

-----------------------------------------------------------------------------
(* The syntax package (syntax/src/builder.rs) *)

\* BTreeMap::len
map_len(m) == Cardinality(DOMAIN m)

\* BTreeMap::insert: the value of a key that is present is replaced
map_insert(m, k, v) == (k :> v) @@ m

\* next_id counting the bodies alone
next_id_bodies(p) == map_len(p.bodies)

\* Package::next_id
next_id(p) == map_len(p.externs) + map_len(p.globals) + map_len(p.bodies)

\* Signature::new().arg(..).ret(..): (conv, args, rets)
Signature(args, rets) == [conv |-> "Fluix", args |-> args, rets |-> rets]

\* Package::declare_extern_proc
declare_extern_proc(p, name, sig) ==
    LET id == next_id(p)
    IN  [p |-> [p EXCEPT !.externs = map_insert(@, id, [k |-> "Proc", name |-> name, sig |-> sig])],
         ret |-> id]

\* Package::declare_extern_global
declare_extern_global(p, name, ty) ==
    LET id == next_id(p)
    IN  [p |-> [p EXCEPT !.externs = map_insert(@, id, [k |-> "Global", name |-> name, ty |-> ty])],
         ret |-> id]

\* Package::declare_global
declare_global(p, attributes, export, name, ty) ==
    LET id == next_id(p)
    IN  [p |-> [p EXCEPT !.globals =
                   map_insert(@, id, [attributes |-> attributes, export |-> export,
                                      name |-> name, ty |-> ty, init |-> <<>>])],
         ret |-> id]

\* Package::define_global: the unwrap panics when id is no global
define_global(p, id, value) ==
    IF id \in DOMAIN p.globals
    THEN [p |-> [p EXCEPT !.globals[id].init = <<value>>], panic |-> FALSE]
    ELSE [p |-> p, panic |-> TRUE]

\* the locals declare_body makes of a signature: the arguments, then the
\* returns, numbered from 0
sig_locals(sig) ==
    [i \in 0..(Len(sig.args) + Len(sig.rets) - 1) |->
        IF i < Len(sig.args)
        THEN [id |-> i, kind |-> "Arg", ty |-> sig.args[i + 1]]
        ELSE [id |-> i, kind |-> "Ret", ty |-> sig.rets[i - Len(sig.args) + 1]]]

\* Package::declare_body
declare_body(p, attributes, export, name, sig) ==
    LET id == next_id(p)
    IN  [p |-> [p EXCEPT !.bodies =
                   map_insert(@, id, [attributes |-> attributes, name |-> name,
                                      export |-> export, conv |-> sig.conv,
                                      locals |-> sig_locals(sig), blocks |-> <<>>])],
         ret |-> id]

\* Package::define_body: a BodyBuilder on the body, with no current block;
\* the unwrap panics when id is no body
define_body(p, id) ==
    IF id \in DOMAIN p.bodies
    THEN [bb |-> [body |-> <<id>>, current_block |-> <<>>], panic |-> FALSE]
    ELSE [bb |-> NoBodyBuilder, panic |-> TRUE]

\* the ItemIds the declare_ calls made so far returned, in call order
Ids == IF "ids" \in DOMAIN last THEN last.ids ELSE <<>>

\* the package p and the builder b become the state; op, a and ret describe
\* the call and ids the ItemIds returned up to and with it
CommitPkg(p, b, panic, op, a, ret, ids) ==
    /\ pkg' = p
    /\ bb' = b
    /\ panicked' = panic
    /\ last' = [op |-> op, a |-> a, ret |-> ret, pre |-> [pkg |-> pkg, bb |-> bb],
                ids |-> ids]
    /\ nops' = nops + 1
    /\ UNCHANGED <<funcs, vars, blocks, block_id, finished, target, datas, mcx, fx,
                   anon_count, host, vm>>

\* the signatures, names and ItemIds tried
PkgSigs == {Signature(<<>>, <<>>), Signature(<<"i32">>, <<"i32">>)}

Names == {"a", "b"}

ItemIds == 0..MaxOps

DeclareExternProc ==
    /\ Running
    /\ \E name \in Names, sig \in PkgSigs :
         LET d == declare_extern_proc(pkg, name, sig)
         IN  CommitPkg(d.p, bb, FALSE, "declare_extern_proc", <<name, sig>>, d.ret,
                       Append(Ids, d.ret))

DeclareExternGlobal ==
    /\ Running
    /\ \E name \in Names :
         LET d == declare_extern_global(pkg, name, "i32")
         IN  CommitPkg(d.p, bb, FALSE, "declare_extern_global", <<name, "i32">>, d.ret,
                       Append(Ids, d.ret))

DeclareGlobal ==
    /\ Running
    /\ \E name \in Names :
         LET d == declare_global(pkg, 0, FALSE, name, "i32")
         IN  CommitPkg(d.p, bb, FALSE, "declare_global", <<0, FALSE, name, "i32">>, d.ret,
                       Append(Ids, d.ret))

DefineGlobal ==
    /\ Running
    /\ \E id \in ItemIds :
         LET d == define_global(pkg, id, <<7>>)
         IN  CommitPkg(d.p, bb, d.panic, "define_global", <<id, <<7>>>>, <<>>, Ids)

DeclareBody ==
    /\ Running
    /\ \E name \in Names, sig \in PkgSigs :
         LET d == declare_body(pkg, 0, FALSE, name, sig)
         IN  CommitPkg(d.p, bb, FALSE, "declare_body", <<0, FALSE, name, sig>>, d.ret,
                       Append(Ids, d.ret))

DefineBody ==
    /\ Running
    /\ \E id \in ItemIds :
         LET d == define_body(pkg, id)
         IN  CommitPkg(pkg, d.bb, d.panic, "define_body", <<id>>, <<>>, Ids)

NextPackage ==
    \/ DeclareExternProc
    \/ DeclareExternGlobal
    \/ DeclareGlobal
    \/ DefineGlobal
    \/ DeclareBody
    \/ DefineBody

\* Package::new
InitPackage == InitBuilder(<<>>)

SpecPackage == InitPackage /\ [][NextPackage]_vars_all

\* the last call was one of the four declare_ calls
Declared ==
    last.op \in {"declare_extern_proc", "declare_extern_global", "declare_global",
                 "declare_body"}

\* C27: the ItemIds the declare_ calls returned are 0, 1, .., n-1 in call
\* order, hence pairwise distinct; every one of them is the key of exactly
\* one entry of externs, globals or bodies, and a declare_ call leaves every
\* entry that was there before as it was
C27_ItemIdsUnique ==
    /\ \A k \in 1..Len(Ids) : Ids[k] = k - 1
    /\ DOMAIN pkg.externs \cup DOMAIN pkg.globals \cup DOMAIN pkg.bodies
          = 0..(Len(Ids) - 1)
    /\ DOMAIN pkg.externs \cap DOMAIN pkg.globals = {}
    /\ DOMAIN pkg.externs \cap DOMAIN pkg.bodies = {}
    /\ DOMAIN pkg.globals \cap DOMAIN pkg.bodies = {}
    /\ Declared =>
          /\ \A id \in DOMAIN last.pre.pkg.externs :
                pkg.externs[id] = last.pre.pkg.externs[id]
          /\ \A id \in DOMAIN last.pre.pkg.globals :
                pkg.globals[id] = last.pre.pkg.globals[id]
          /\ \A id \in DOMAIN last.pre.pkg.bodies :
                pkg.bodies[id] = last.pre.pkg.bodies[id]

\* C27 witness: a body was declared after an extern, a global and a
\* definition of that global, and got the ItemId 2
C27_Witness ==
    /\ last.op = "declare_body"
    /\ last.ret = 2
    /\ map_len(pkg.externs) = 1
    /\ map_len(pkg.globals) = 1
    /\ \E id \in DOMAIN pkg.globals : pkg.globals[id].init # <<>>

-----------------------------------------------------------------------------
(* The syntax BodyBuilder (syntax/src/builder.rs) *)

\* Place::local
place_local(id) == [base |-> [k |-> "Local", id |-> id], elems |-> <<>>]

\* Place::deref
place_deref(p) == [p EXCEPT !.elems = Append(@, [k |-> "Deref"])]

\* Place::field
place_field(p, idx) == [p EXCEPT !.elems = Append(@, [k |-> "Field", idx |-> idx])]

Unset == [k |-> "Unset"]

\* a builder state s is [body, current_block, panic]: the Body the builder
\* borrows, its current block and whether a call panicked

\* BodyBuilder::block can be taken: there is a current block and the body
\* has it (either unwrap panics otherwise)
has_block(s) ==
    /\ ~s.panic
    /\ s.current_block # <<>>
    /\ s.current_block[1] \in DOMAIN s.body.blocks

\* BodyBuilder::block
bb_block(s) == s.body.blocks[s.current_block[1]]

\* BodyBuilder::create_var and create_tmp, kind being Var or Tmp
bb_create_var(s, kind, ty) ==
    LET id == map_len(s.body.locals)
    IN  [s |-> [s EXCEPT !.body.locals = map_insert(@, id, [id |-> id, kind |-> kind, ty |-> ty])],
         ret |-> id]

\* BodyBuilder::create_block
bb_create_block(s) ==
    LET id == map_len(s.body.blocks)
    IN  [s |-> [s EXCEPT !.body.blocks = map_insert(@, id, [id |-> id, stmts |-> <<>>, term |-> Unset])],
         ret |-> id]

\* BodyBuilder::use_block
bb_use_block(s, block) == [s EXCEPT !.current_block = <<block>>]

\* BodyBuilder::use_, and with it ref_, slice, cast, binary, unary, nullary
\* and init, which push an Assign of their own value in the same way
bb_use_(s, place, op) ==
    IF ~has_block(s) THEN [s EXCEPT !.panic = TRUE]
    ELSE [s EXCEPT !.body.blocks[s.current_block[1]].stmts =
                      Append(@, [k |-> "Assign", place |-> place,
                                 value |-> [k |-> "Use", op |-> op]])]

\* a terminator is stored if the current block has none
set_if_unset(s, term) ==
    IF ~has_block(s) THEN [s EXCEPT !.panic = TRUE]
    ELSE IF bb_block(s).term = Unset
         THEN [s EXCEPT !.body.blocks[s.current_block[1]].term = term]
         ELSE s

\* BodyBuilder::return_
bb_return_(s) == set_if_unset(s, [k |-> "Return"])

\* jump storing its terminator whatever the block has
bb_jump_always(s, dest) ==
    IF ~has_block(s) THEN [s EXCEPT !.panic = TRUE]
    ELSE [s EXCEPT !.body.blocks[s.current_block[1]].term = [k |-> "Jump", target |-> dest]]

\* BodyBuilder::jump
bb_jump(s, dest) == set_if_unset(s, [k |-> "Jump", target |-> dest])

\* BodyBuilder::call
bb_call(s, places, proc, args, dest) ==
    set_if_unset(s, [k |-> "Call", places |-> places, proc |-> proc, args |-> args,
                     target |-> dest])

\* BodyBuilder::switch
bb_switch(s, op, vals, targets) ==
    set_if_unset(s, [k |-> "Switch", op |-> op, vals |-> vals, targets |-> targets])

\* the state of the builder made by define_body
CurBody == [body |-> pkg.bodies[bb.body[1]], current_block |-> bb.current_block,
            panic |-> FALSE]

Building == Running /\ bb.body # <<>>

\* the builder state s becomes the state
CommitBody(s, op, a, ret) ==
    CommitPkg([pkg EXCEPT !.bodies[bb.body[1]] = s.body],
              [bb EXCEPT !.current_block = s.current_block],
              s.panic, op, a, ret, Ids)

\* the BlockIds tried: those of the body and one it does not have
BlockIds == 0..1

\* the places tried
Places == {place_local(0), place_field(place_deref(place_local(0)), 1)}

BbCreateVar ==
    /\ Building
    /\ \E kind \in {"Var", "Tmp"} :
         LET c == bb_create_var(CurBody, kind, "i32")
         IN  CommitBody(c.s, "create_var", <<kind, "i32">>, c.ret)

BbCreateBlock ==
    /\ Building
    /\ LET c == bb_create_block(CurBody) IN CommitBody(c.s, "create_block", <<>>, c.ret)

BbUseBlock ==
    /\ Building
    /\ \E block \in BlockIds :
         CommitBody(bb_use_block(CurBody, block), "use_block", <<block>>, <<>>)

BbUse ==
    /\ Building
    /\ \E place \in Places :
         CommitBody(bb_use_(CurBody, place, 7), "use_", <<place, 7>>, <<>>)

BbReturn ==
    /\ Building
    /\ CommitBody(bb_return_(CurBody), "return_", <<>>, <<>>)

BbJump ==
    /\ Building
    /\ \E dest \in BlockIds :
         CommitBody(bb_jump(CurBody, dest), "jump", <<dest>>, <<>>)

BbCall ==
    /\ Building
    /\ \E dest \in BlockIds :
         CommitBody(bb_call(CurBody, <<place_local(0)>>, 7, <<>>, dest),
                    "call", <<dest>>, <<>>)

BbSwitch ==
    /\ Building
    /\ \E dest \in BlockIds :
         CommitBody(bb_switch(CurBody, 7, <<0>>, <<dest, 0>>),
                    "switch", <<dest>>, <<>>)

NextBody ==
    \/ BbCreateVar
    \/ BbCreateBlock
    \/ BbUseBlock
    \/ BbUse
    \/ BbReturn
    \/ BbJump
    \/ BbCall
    \/ BbSwitch
    \/ DefineBody

\* a package with one body declared, and define_body called on it
InitBody ==
    /\ funcs = <<>>
    /\ vars = <<>>
    /\ blocks = <<>>
    /\ block_id = ENTRY
    /\ panicked = FALSE
    /\ finished = FALSE
    /\ last = NoOp
    /\ nops = 0
    /\ target = [ptr_size |-> 8, endianness |-> "Little"]
    /\ datas = <<>>
    /\ mcx = NewMiddleCtx
    /\ fx = NoFnCtx
    /\ anon_count = 0
    /\ host = "Little"
    /\ pkg = declare_body(NewPackage, 0, FALSE, "a", Signature(<<"i32">>, <<"i32">>)).p
    /\ bb = define_body(pkg, 0).bb
    /\ vm = NoVM

SpecBody == InitBody /\ [][NextBody]_vars_all

TermOps == {"return_", "jump", "call", "switch"}

\* C25: a block whose terminator is no longer Unset keeps that terminator
\* through every builder operation, and a return_, jump, call or switch
\* issued while it is the current block leaves the whole block, terminator
\* and statements, as it was
C25_TermSetOnce ==
    [][\A i \in DOMAIN pkg.bodies :
         \A b \in DOMAIN pkg.bodies[i].blocks :
            pkg.bodies[i].blocks[b].term # Unset =>
              /\ i \in DOMAIN pkg'.bodies
              /\ b \in DOMAIN pkg'.bodies[i].blocks
              /\ pkg'.bodies[i].blocks[b].term = pkg.bodies[i].blocks[b].term
              /\ (last'.op \in TermOps /\ bb.body = <<i>> /\ bb.current_block = <<b>>) =>
                    pkg'.bodies[i].blocks[b] = pkg.bodies[i].blocks[b]]_vars_all

\* C25 witness: a jump was issued while the current block had Return as
\* its terminator, and the block still has it
C25_Witness ==
    /\ last.op = "jump" /\ ~panicked
    /\ bb.current_block # <<>>
    /\ last.pre.bb.current_block = bb.current_block
    /\ last.pre.pkg.bodies[0].blocks[bb.current_block[1]].term = [k |-> "Return"]
    /\ pkg.bodies[0].blocks[bb.current_block[1]].term = [k |-> "Return"]

-----------------------------------------------------------------------------
(* The reference VM (vm/src/lib.rs) *)

\* a VM state v is [memory, frames, fns, calls, result, panic]: memory.stack
\* is the byte stack and memory.order the byte order read_u32 decodes in;
\* fns lists the HashMap's (name, Function) pairs in its iteration order;
\* calls holds, for every frame, the function and the loc of the run_fn
\* activation that runs in it; result is what run_fn gave run, None being
\* <<>> and Some(x) being <<x>>

vm_panic(v) == [v EXCEPT !.panic = TRUE]

\* Memory::read_u32: the four bytes at loc, which must be there, decoded in
\* the memory's byte order
read_u32(memory, loc) ==
    IF loc + 4 > Len(memory.stack) THEN [val |-> 0, panic |-> TRUE]
    ELSE [val |-> from_ne_bytes(memory.order, SubSeq(memory.stack, loc + 1, loc + 4)),
          panic |-> FALSE]

\* VM::init
init(v, size) == [v EXCEPT !.memory.stack = @ \o [i \in 1..size |-> 0]]

\* VM::drop
drop(v, size) ==
    IF size > Len(v.memory.stack) THEN vm_panic(v)
    ELSE [v EXCEPT !.memory.stack = SubSeq(@, 1, Len(@) - size)]

\* VM::frame
frame(v) == v.frames[Len(v.frames)]

\* for i in 0..size { memory.stack[loc + i] = bytes[i] } with the bytes of val
write_bytes(v, loc, size, val) ==
    IF v.panic THEN v
    ELSE IF size > 8 \/ loc + size > Len(v.memory.stack) THEN vm_panic(v)
    ELSE [v EXCEPT !.memory.stack =
            [i \in 1..Len(@) |-> IF i > loc /\ i <= loc + size
                                 THEN to_le_bytes(val)[i - loc] ELSE @[i]]]

\* the loop of VM::place over the projection elements in the order given
RECURSIVE project(_, _, _)
project(memory, elems, loc) ==
    IF elems = <<>> THEN [loc |-> loc, panic |-> FALSE]
    ELSE LET proj == Head(elems)
         IN  IF proj.k = "Field" THEN project(memory, Tail(elems), loc + proj.idx)
             ELSE LET r == read_u32(memory, loc)
                  IN  IF r.panic THEN [loc |-> loc, panic |-> TRUE]
                      ELSE project(memory, Tail(elems), r.val)

\* VM::place: the projection is walked with into_iter().rev()
place(v, p) ==
    LET f == frame(v)
        id == p.base.id
    IN  IF v.frames = <<>> \/ id \notin DOMAIN f.locals \/ id \notin DOMAIN f.sizes
        THEN [loc |-> 0, size |-> 0, panic |-> TRUE]
        ELSE LET r == project(v.memory, Reverse(p.projection), f.locals[id])
             IN  [loc |-> r.loc, size |-> f.sizes[id], panic |-> r.panic]

\* the position of the function named name in the iteration order of fns
fn_index(v, name) == {i \in 1..Len(v.fns) : v.fns[i].name = name}

\* VM::constant
constant(v, c) ==
    CASE c.k \in {"Int", "UInt", "Float"} -> [val |-> c.v, panic |-> FALSE]
      [] c.k = "Bool" -> [val |-> IF c.v THEN 1 ELSE 0, panic |-> FALSE]
      [] c.k = "Item" ->
           IF fn_index(v, c.id) = {} THEN [val |-> 0, panic |-> TRUE]
           ELSE [val |-> (CHOOSE i \in fn_index(v, c.id) : TRUE) - 1, panic |-> FALSE]
      [] OTHER -> [val |-> 0, panic |-> TRUE]

\* VM::operand
operand(v, o) ==
    CASE o.k = "Constant" -> constant(v, o.c)
      [] o.k = "Copy" -> LET r == place(v, o.p) IN [val |-> r.loc, panic |-> r.panic]
      [] OTHER -> [val |-> 0, panic |-> TRUE]

\* VM::rvalue
rvalue(v, value) ==
    IF value.k = "Use" THEN operand(v, value.op) ELSE [val |-> 0, panic |-> TRUE]

\* the statements of a block, in order
RECURSIVE statements(_, _)
statements(v, stmts) ==
    IF v.panic \/ stmts = <<>> THEN v
    ELSE LET stmt == Head(stmts)
             n == Len(v.frames)
         IN  CASE stmt.k = "StorageLive" ->
                    IF stmt.id \notin DOMAIN frame(v).sizes THEN vm_panic(v)
                    ELSE statements(
                           init([v EXCEPT !.frames[n].locals =
                                            map_insert(@, stmt.id, Len(v.memory.stack))],
                                frame(v).sizes[stmt.id]),
                           Tail(stmts))
               [] stmt.k = "StorageDead" ->
                    IF stmt.id \notin DOMAIN frame(v).sizes THEN vm_panic(v)
                    ELSE statements(
                           drop([v EXCEPT !.frames[n].locals =
                                            [id \in DOMAIN @ \ {stmt.id} |-> @[id]]],
                                frame(v).sizes[stmt.id]),
                           Tail(stmts))
               [] stmt.k = "Assign" ->
                    LET pl == place(v, stmt.place)
                        val == rvalue(v, stmt.value)
                    IN  IF pl.panic \/ val.panic THEN vm_panic(v)
                        ELSE statements(write_bytes(v, pl.loc, pl.size, val.val), Tail(stmts))

\* the sizes of a function's bindings
sizes_of(f) ==
    [id \in {f.bindings[i].id : i \in 1..Len(f.bindings)} |->
        (CHOOSE b \in {f.bindings[i] : i \in 1..Len(f.bindings)} : b.id = id).ty.size]

\* a StackFrame for f with no local placed yet
new_frame(f) == [locals |-> <<>>, sizes |-> sizes_of(f), block |-> 0]

\* the start of run_fn, whose frame is on top: the return memory
run_fn_enter(v, f) ==
    IF v.panic THEN v
    ELSE IF f.bindings = <<>> THEN vm_panic(v)
    ELSE LET loc == Len(v.memory.stack)
             n == Len(v.frames)
             id == f.bindings[1].id
             v1 == [v EXCEPT !.frames[n].locals = map_insert(@, id, loc),
                             !.calls = Append(@, [f |-> f, loc |-> loc])]
         IN  init(v1, frame(v1).sizes[id])

\* VM::run
run(v) ==
    IF fn_index(v, "main") = {} THEN vm_panic(v)
    ELSE LET f == v.fns[CHOOSE i \in fn_index(v, "main") : TRUE].f
         IN  run_fn_enter([v EXCEPT !.frames = Append(@, new_frame(f))], f)

\* the loop that places the parameters of a call from parameter k on; fr is
\* the callee's frame, not pushed yet
RECURSIVE init_params(_, _, _, _, _)
init_params(v, fr, f, args, k) ==
    IF v.panic \/ k > Len(f.params) \/ k > Len(args) THEN [v |-> v, fr |-> fr]
    ELSE LET size == f.params[k].ty.size
             loc == Len(v.memory.stack)
             fr1 == [fr EXCEPT !.locals = map_insert(@, f.params[k].id, loc)]
             v1 == init(v, size)
             val == operand(v1, args[k])
         IN  IF val.panic THEN [v |-> vm_panic(v1), fr |-> fr1]
             ELSE init_params(write_bytes(v1, loc, size, val.val), fr1, f, args, k + 1)

\* what the four Call arms do before run_fn(f): the callee is looked up,
\* its frame made, its parameters placed and the frame pushed
call(v, fop, args) ==
    LET i == operand(v, fop)
    IN  IF i.panic \/ i.val >= Len(v.fns) THEN vm_panic(v)
        ELSE LET f == v.fns[i.val + 1].f
                 r == init_params(v, new_frame(f), f, args, 1)
             IN  IF r.v.panic THEN r.v
                 ELSE run_fn_enter([r.v EXCEPT !.frames = Append(@, r.fr)], f)

\* VM::block
block(v, f) == {b \in {f.blocks[i] : i \in 1..Len(f.blocks)} : b.id = frame(v).block}

\* run_fn gave val to its caller: run takes it from the first activation;
\* any other caller pops the frame and goes on in the arm of its Call.  outs
\* collects, for every caller that went on, what it did
RECURSIVE run_fn_return(_, _, _)
run_fn_return(v, val, outs) ==
    IF Len(v.calls) = 1
    THEN [v |-> [v EXCEPT !.calls = <<>>, !.result = <<val>>], outs |-> outs]
    ELSE LET v1 == [v EXCEPT !.frames = SubSeq(@, 1, Len(@) - 1),
                             !.calls = SubSeq(@, 1, Len(@) - 1)]
             n == Len(v1.frames)
             c == v1.calls[Len(v1.calls)]
             term == (CHOOSE b \in block(v1, c.f) : TRUE).terminator
             at == frame(v1).block
             out(what) == Append(outs, [block |-> at, dest |-> term.dest, fail |-> term.fail,
                                        val |-> val, did |-> what])
         IN  CASE term.dest # <<>> /\ val # <<>> ->
                    LET pl == place(v1, term.dest[1].place)
                        w == IF pl.panic THEN vm_panic(v1)
                             ELSE write_bytes(v1, pl.loc, pl.size, val[1])
                    IN  IF w.panic THEN [v |-> w, outs |-> out("panic")]
                        ELSE [v |-> [w EXCEPT !.frames[n].block = term.dest[1].next],
                              outs |-> out("next")]
               [] term.dest # <<>> /\ val = <<>> /\ term.fail # <<>> ->
                    [v |-> [v1 EXCEPT !.frames[n].block = term.fail[1]], outs |-> out("fail")]
               [] term.dest # <<>> /\ val = <<>> /\ term.fail = <<>> ->
                    run_fn_return(v1, <<>>, out("return"))
               [] term.dest = <<>> /\ term.fail # <<>> /\ val = <<>> ->
                    [v |-> [v1 EXCEPT !.frames[n].block = term.fail[1]], outs |-> out("fail")]
               [] term.dest = <<>> /\ term.fail # <<>> /\ val # <<>> ->
                    [v |-> v1, outs |-> out("nothing")]
               [] term.dest = <<>> /\ term.fail = <<>> /\ val = <<>> ->
                    run_fn_return(v1, <<>>, out("return"))
               [] term.dest = <<>> /\ term.fail = <<>> /\ val # <<>> ->
                    run_fn_return(v1, <<c.loc>>, out("return"))

\* one turn of the loop of run_fn in the activation on top: the block of
\* the frame, its statements, its terminator
run_fn_block(v) ==
    LET c == v.calls[Len(v.calls)]
        n == Len(v.frames)
        found == block(v, c.f)
        nothing == [v |-> v, outs |-> <<>>]
    IN  IF found = {} THEN [nothing EXCEPT !.v = vm_panic(v)]
        ELSE LET b == CHOOSE b \in found : TRUE
                 v1 == statements(v, b.statements)
                 term == b.terminator
             IN  IF v1.panic THEN [nothing EXCEPT !.v = v1]
                 ELSE CASE term.k = "Return" -> run_fn_return(v1, <<c.loc>>, <<>>)
                        [] term.k = "Goto" ->
                             [nothing EXCEPT !.v = [v1 EXCEPT !.frames[n].block = term.id]]
                        [] term.k = "Abort" -> run_fn_return(v1, <<>>, <<>>)
                        [] term.k = "Call" -> [nothing EXCEPT !.v = call(v1, term.f, term.args)]
                        [] OTHER -> [nothing EXCEPT !.v = vm_panic(v1)]

\* the VM state v becomes the state; outs is what the callers resumed in
\* this step did
CommitVm(v, op, a, ret, outs) ==
    /\ vm' = v
    /\ panicked' = v.panic
    /\ last' = [op |-> op, a |-> a, ret |-> ret, outs |-> outs,
                pre |-> [frames |-> vm.frames, calls |-> vm.calls]]
    /\ nops' = nops + 1
    /\ UNCHANGED <<funcs, vars, blocks, block_id, finished, target, datas, mcx, fx,
                   anon_count, host, pkg, bb>>

\* the state of every part of the compiler while the VM runs
InitNoCompiler ==
    /\ funcs = <<>>
    /\ vars = <<>>
    /\ blocks = <<>>
    /\ block_id = ENTRY
    /\ panicked = FALSE
    /\ finished = FALSE
    /\ last = NoOp
    /\ nops = 0
    /\ target = [ptr_size |-> 8, endianness |-> "Little"]
    /\ datas = <<>>
    /\ mcx = NewMiddleCtx
    /\ fx = NoFnCtx
    /\ anon_count = 0
    /\ host = "Little"
    /\ pkg = NewPackage
    /\ bb = NoBodyBuilder

-----------------------------------------------------------------------------
(* Place projections in the VM *)

\* the VM's Place of a place the builder made: the projection holds the
\* elements in the order they were pushed
vm_place(p) == [base |-> p.base, projection |-> p.elems]

\* the places tried, as the builder makes them
BuiltPlaces ==
    {place_local(0),
     place_deref(place_local(0)),
     place_field(place_local(1), 4),
     place_field(place_deref(place_local(0)), 4),
     place_deref(place_field(place_local(0), 4)),
     place_deref(place_deref(place_local(0))),
     place_field(place_field(place_local(0), 4), 4),
     place_deref(place_field(place_deref(place_local(0)), 4))}

\* the words a memory of three words may hold: addresses of its words
Words == {0, 4, 8}

\* the bytes of a word in byte order h
word_bytes(h, w) ==
    IF h = "Little" THEN SubSeq(to_le_bytes(w), 1, 4) ELSE SubSeq(to_be_bytes(w), 5, 8)

\* a VM stopped in a frame whose locals 0 and 1 are the first two words of
\* a three-word memory
InitPlace ==
    /\ InitNoCompiler
    /\ \E h \in {"Little", "Big"}, w \in [1..3 -> Words] :
         vm = [NoVM EXCEPT
                 !.memory = [stack |-> word_bytes(h, w[1]) \o word_bytes(h, w[2])
                                         \o word_bytes(h, w[3]),
                             order |-> h],
                 !.frames = <<[locals |-> (0 :> 0) @@ (1 :> 4),
                               sizes |-> (0 :> 4) @@ (1 :> 4), block |-> 0]>>]

Place ==
    /\ ~panicked
    /\ nops < MaxOps
    /\ \E p \in BuiltPlaces :
         LET r == place(vm, vm_place(p))
         IN  CommitVm([vm EXCEPT !.panic = r.panic], "place", <<vm_place(p)>>,
                      <<r.loc, r.size>>, <<>>)

NextPlace == Place

SpecPlace == InitPlace /\ [][NextPlace]_vars_all

\* the elements of the last place applied one after the other, first to
\* last, from the location of its base local
Forward ==
    project(vm.memory, last.a[1].projection, frame(vm).locals[last.a[1].base.id])

\* C23: for a place with two or more projection elements, VM::place gives
\* the location got by applying the elements in the order the builder
\* pushed them, first to last, starting from the base local: deref() then
\* field(i) is the location i past what the base points to
C23_PlaceForward ==
    (last.op = "place" /\ Len(last.a[1].projection) >= 2 /\ ~Forward.panic) =>
      /\ ~panicked
      /\ last.ret[1] = Forward.loc

-----------------------------------------------------------------------------
(* Calls in the VM *)

I32Ty == [size |-> 4]

\* a function with the return binding 0 and, with a parameter, the local 1
Function(name, params, blks) ==
    [name |-> name,
     bindings |-> <<[id |-> 0, ty |-> I32Ty]>> \o params,
     params |-> params,
     blocks |-> blks]

BasicBlock(id, stmts, term) == [id |-> id, statements |-> stmts, terminator |-> term]

TReturn == [k |-> "Return"]
TAbort == [k |-> "Abort"]
TGoto(id) == [k |-> "Goto", id |-> id]
TCall(f, args, dest, fail) == [k |-> "Call", f |-> f, args |-> args, dest |-> dest, fail |-> fail]

Item(name) == [k |-> "Constant", c |-> [k |-> "Item", id |-> name]]
IntConst(n) == [k |-> "Constant", c |-> [k |-> "Int", v |-> n]]

\* the four forms of the Call terminator: with or without (place, next),
\* with or without fail; next is block 1 and fail block 2
CallForms(name, args) ==
    {TCall(Item(name), args, dest, fail) :
       dest \in {<<>>, <<[place |-> vm_place(place_local(0)), next |-> 1]>>},
       fail \in {<<>>, <<2>>}}

\* a caller: block 0 makes the call, block 1 returns, block 2 aborts
Caller(name, params, term) ==
    Function(name, params,
             <<BasicBlock(0, <<>>, term), BasicBlock(1, <<>>, TReturn),
               BasicBlock(2, <<>>, TAbort)>>)

\* the functions h may be: it returns or aborts
Leaves(name, params) ==
    {Function(name, params, <<BasicBlock(0, <<>>, term)>>) : term \in {TReturn, TAbort}}

\* the functions g may be: a leaf, one that stores to its return memory
\* and goes to a returning block, or a caller of h
Callees ==
    Leaves("g", <<[id |-> 1, ty |-> I32Ty]>>)
    \cup {Function("g", <<[id |-> 1, ty |-> I32Ty]>>,
                   <<BasicBlock(0, <<[k |-> "StorageLive", id |-> 1],
                                     [k |-> "Assign", place |-> vm_place(place_local(0)),
                                      value |-> [k |-> "Use", op |-> IntConst(7)]],
                                     [k |-> "StorageDead", id |-> 1]>>, TGoto(1)),
                     BasicBlock(1, <<>>, TReturn)>>)}
    \cup {Caller("g", <<[id |-> 1, ty |-> I32Ty]>>, term) : term \in CallForms("h", <<>>)}

\* the programs tried, in either iteration order of the function table
Programs ==
    {<<[name |-> "main", f |-> Caller("main", <<>>, term)],
       [name |-> "g", f |-> g], [name |-> "h", f |-> h]>> :
       term \in CallForms("g", <<IntConst(7)>>), g \in Callees, h \in Leaves("h", <<>>)}

\* VM::new
InitVm ==
    /\ InitNoCompiler
    /\ \E fns \in Programs, rev \in BOOLEAN :
         vm = [NoVM EXCEPT !.fns = IF rev THEN Reverse(fns) ELSE fns]

Run ==
    /\ ~panicked
    /\ nops < MaxSteps
    /\ vm.frames = <<>>
    /\ CommitVm(run(vm), "run", <<>>, <<>>, <<>>)

RunFnBlock ==
    /\ ~panicked
    /\ nops < MaxSteps
    /\ vm.calls # <<>>
    /\ LET r == run_fn_block(vm)
       IN  CommitVm(r.v, "run_fn", <<>>, r.v.result, r.outs)

NextVm == Run \/ RunFnBlock

SpecVm == InitVm /\ [][NextVm]_vars_all

\* C26: when a callee's run_fn has returned, the caller's run_fn returns
\* too or sets its frame's block to the next or the fail target of the
\* Call (or the VM panics on the destination); it does not go on with its
\* frame still at the calling block
C26_CallProgress ==
    last.op = "run_fn" =>
      \A k \in 1..Len(last.outs) :
         /\ last.outs[k].did \in {"return", "next", "fail", "panic"}
         /\ last.outs[k].did \in {"next", "fail"} =>
               vm.frames[Len(vm.frames)].block # last.outs[k].block

====
